---- MODULE Spec2Model ----
(***************************************************************************)
(* A model of the SQL-request lifecycle of the reporting-engine modules:   *)
(*   sql_request_abstract/models/sql_request_mixin.py  (SQLRequestMixin)   *)
(*   bi_sql_editor/models/bi_sql_view.py               (BiSQLView)         *)
(*                                                                         *)
(* A text (a query, a mode string, a view name) is a sequence of strings   *)
(* whose concatenation is the text.  A query is kept character by          *)
(* character, so that strip(), lower(), the ';' loop, the \b word          *)
(* boundaries and Python's substring test are computed as the code         *)
(* computes them.                                                          *)
(*                                                                         *)
(* Every method is one action.  It runs on a context record (the fields of *)
(* the record, the database, the ORM tables, the statements sent so far    *)
(* and the pending exception) that is threaded through the operators that  *)
(* model the methods it calls, in the order the code calls them.           *)
(***************************************************************************)
EXTENDS Integers, Sequences, FiniteSets, TLC

VARIABLES
    name_,                  \* _name of the concrete model of the record
    state,                  \* field state
    query,                  \* field query
    use_external_database,  \* field use_external_database
    has_group_changed,      \* field has_group_changed
    group_ids,              \* field group_ids
    technical_name,         \* BiSQLView: field technical_name
    is_materialized,        \* BiSQLView: field is_materialized
    size,                   \* BiSQLView: field size
    sequence,               \* BiSQLView: field sequence
    menu_sequence,          \* field sequence of the menu the view references
    action_name,            \* field name of the action the view references
    now,                    \* the clock of the server
    fields,                 \* BiSQLView: bi_sql_view_field_ids
    refs,                   \* BiSQLView: the Many2one fields to what the view owns
    orm,                    \* the records of the ORM the view made, per Many2one
    access,                 \* the ir.model.access records
    cron_active,            \* the ir.cron records that are active
    catalog,                \* what the database answers for the current query
    db,                     \* the objects of the local database
    alive,                  \* whether the record exists
    others,                 \* the states of the other views of the database
    sessions,               \* where each session that runs _create_view stands
    dblog,                  \* the statements the sessions have sent, in order
    call,                   \* the last method called, with its arguments
    outcome,                \* how the last call ended: "ok" or the exception
    message,                \* the text the exception carries
    trace                   \* what the last call did, in order

vars == <<name_, state, query, use_external_database, has_group_changed, group_ids,
          technical_name, is_materialized, size, sequence, menu_sequence, action_name,
          now, fields, refs, orm, access,
          cron_active, catalog, db, alive, others, sessions, dblog,
          call, outcome, message, trace>>

-----------------------------------------------------------------------------
(* Bounds of the model.                                                    *)

\* Number of atoms a query of the sanitizer specification is made of.
MaxQueryAtoms == 3
\* Number of atoms a query of the lifecycle specifications is made of.
MaxAtoms == 2
\* Number of atoms the query of a view is made of.
MaxViewAtoms == 1
\* Number of columns of a query.
MaxCols == 1
\* Number of records of one kind the ORM holds for a view.
MaxRecords == 2
\* Number of objects of the database of a plain request.
MaxDbObjects == 1
\* Number of views of the database next to the one the model follows.
MaxOthers == 1
\* Number of columns of a query whose fields are followed one by one.
MaxSyncCols == 2
\* Number of times the clock of the server moves.
MaxTicks == 1
\* Number of sessions that materialize the view at the same time.
MaxSessions == 2
\* The greatest sequence a user gives a view.
MaxSequence == 2

-----------------------------------------------------------------------------
(* Characters and texts.                                                   *)

LowerCase == <<"a","b","c","d","e","f","g","h","i","j","k","l","m",
               "n","o","p","q","r","s","t","u","v","w","x","y","z">>
UpperCase == <<"A","B","C","D","E","F","G","H","I","J","K","L","M",
               "N","O","P","Q","R","S","T","U","V","W","X","Y","Z">>
Digits == {"0","1","2","3","4","5","6","7","8","9"}

Range(s) == { s[i] : i \in DOMAIN s }

\* str.isspace() for one character.
IsSpace(ch) == ch \in {" ", "\n", "\t", "\r"}

\* The characters the regular expression class \w matches.
WordChars == Range(LowerCase) \cup Range(UpperCase) \cup Digits \cup {"_"}

IsWordChar(ch) == ch \in WordChars

\* str.lower() for one character, and for a text.
LowerChar(ch) ==
    IF \E i \in DOMAIN UpperCase : UpperCase[i] = ch
    THEN LowerCase[CHOOSE i \in DOMAIN UpperCase : UpperCase[i] = ch]
    ELSE ch

lower(s) == [i \in DOMAIN s |-> LowerChar(s[i])]

\* s[:-1]
DropLast(s) == SubSeq(s, 1, Len(s) - 1)

RECURSIVE lstrip(_)
lstrip(s) == IF s # <<>> /\ IsSpace(Head(s)) THEN lstrip(Tail(s)) ELSE s

RECURSIVE rstrip(_)
rstrip(s) == IF s # <<>> /\ IsSpace(s[Len(s)]) THEN rstrip(DropLast(s)) ELSE s

\* str.strip(): white space is removed at both ends.
strip(s) == rstrip(lstrip(s))

\* Python's "a in b" for two strings: a is a substring of b.
IsSubstring(a, b) ==
    \E i \in 0..(Len(b) - Len(a)) : SubSeq(b, i + 1, i + Len(a)) = a

RECURSIVE Flatten(_)
Flatten(ss) == IF ss = <<>> THEN <<>> ELSE Head(ss) \o Flatten(Tail(ss))

\* The texts made of 1..n atoms.
Texts(atoms, n) ==
    UNION { { Flatten(f) : f \in [1..k -> atoms] } : k \in 1..n }

-----------------------------------------------------------------------------
(* SQLRequestMixin: constants.                                             *)

PROHIBITED_WORDS ==
    << <<"d", "e", "l", "e", "t", "e">>,
       <<"d", "r", "o", "p">>,
       <<"i", "n", "s", "e", "r", "t">>,
       <<"a", "l", "t", "e", "r">>,
       <<"t", "r", "u", "n", "c", "a", "t", "e">>,
       <<"e", "x", "e", "c", "u", "t", "e">>,
       <<"c", "r", "e", "a", "t", "e">>,
       <<"u", "p", "d", "a", "t", "e">>,
       <<"i", "r", "_", "c", "o", "n", "f", "i", "g", "_", "p", "a", "r", "a", "m", "e", "t", "e", "r">> >>


\* The mode strings _execute_sql_request names.
MODE_FETCHALL == <<"f", "e", "t", "c", "h", "a", "l", "l">>
MODE_FETCHONE == <<"f", "e", "t", "c", "h", "o", "n", "e">>
MODE_STDOUT == <<"s", "t", "d", "o", "u", "t">>
MODE_VIEW == <<"v", "i", "e", "w">>
MODE_MATERIALIZED_VIEW == <<"m", "a", "t", "e", "r", "i", "a", "l", "i", "z", "e", "d", "_", "v", "i", "e", "w">>

\* STATE_SELECTION, with the states BiSQLView adds.
STATE_SELECTION == <<"draft", "sql_valid">>
STATE_SQL_EDITOR == <<"model_valid", "ui_valid">>

\* _name of a plain consumer of the mixin, and of BiSQLView.
NAME_REQUEST == <<"sql", ".", "export">>
NAME_VIEW == <<"bi", ".", "sql", ".", "view">>

-----------------------------------------------------------------------------
(* The context of a running method.                                        *)

NoText == <<>>

\* Something a method did: a statement sent on a cursor, with the answer of
\* the database, or a call of the ORM.
Event(ev, cr, name, body) ==
    [ev |-> ev, cr |-> cr, name |-> name, body |-> body, result |-> "ok"]

Log(c, e) == [c EXCEPT !.trace = Append(@, e)]

Raise(c, exc, msg) == [c EXCEPT !.exc = exc, !.msg = msg]

Failed(c) == c.exc # "none"

\* The one element of a set of one element.
Only(S) == CHOOSE v \in S : TRUE

\* Body applied to the value of v, which is computed once.
Let(v, Body(_)) == Only({ Body(x) : x \in {v} })

\* The next statement of a method: it runs unless an exception is pending.
Then(c0, Op(_)) == Let(c0, LAMBDA c : IF Failed(c) THEN c ELSE Op(c))

\* try: ... finally: f.  `c` is the context when the try block is left, `f` the
\* same context after the finally block ran with no exception pending: an
\* exception of the finally block replaces the pending one.
Finally(c, f0) ==
    Let(f0, LAMBDA f : IF Failed(f) THEN f ELSE [f EXCEPT !.exc = c.exc, !.msg = c.msg])

NoPending(c) == [c EXCEPT !.exc = "none", !.msg = NoText]

-----------------------------------------------------------------------------
(* The database, as the code uses it.                                      *)

\* What the two cursors see: the ambient transaction, and the transaction of
\* the external connection the running call opened.
Content(c, cr) == IF cr = "local" THEN c.db ELSE c.ext

SetContent(c, cr, objs) ==
    IF cr = "local" THEN [c EXCEPT !.db = objs] ELSE [c EXCEPT !.ext = objs]

Object(kind, name, cols) == [kind |-> kind, name |-> name, cols |-> cols]

Relations == {"view", "matview", "table"}

RelationExists(c, cr, name) ==
    \E o \in Content(c, cr) : o.kind \in Relations /\ o.name = name

\* cr.execute(statement): the statement is sent; the database either raises
\* `result` or applies the statement, which adds `adds` and drops `drops`.
cr_execute(c0, cr, stmt, name, body, result, adds, drops) ==
    Let(c0, LAMBDA c :
        Let(Log(c, [Event(stmt, cr, name, body) EXCEPT !.result = result]), LAMBDA sent :
            IF result # "ok"
            THEN Raise(sent, result, <<stmt>>)
            ELSE SetContent(sent, cr, (Content(sent, cr) \ drops) \cup adds)))


-----------------------------------------------------------------------------
(* SQLRequestMixin: the query sanitizer.                                   *)

\* The loop of _clean_query: while query[-1] == ";": query = query[:-1].
\* query[-1] of the empty string raises IndexError.
RECURSIVE StripTerminators(_)
StripTerminators(q) ==
    IF q = <<>> THEN [raised |-> TRUE, query |-> q]
    ELSE IF q[Len(q)] = ";" THEN StripTerminators(DropLast(q))
    ELSE [raised |-> FALSE, query |-> q]

clean_query(c0) ==
    Let(c0, LAMBDA c :
        Let(StripTerminators(strip(c.query)), LAMBDA r :
            IF r.raised
            THEN Raise(c, "IndexError", <<"string index out of range">>)
            ELSE [c EXCEPT !.query = r.query]))

\* Whether position p of the text holds a word character; positions outside
\* the text hold none.
WordAt(text, p) == p \in DOMAIN text /\ IsWordChar(text[p])

\* The assertion \b between positions p and p + 1.
Boundary(text, p) == WordAt(text, p) # WordAt(text, p + 1)

\* The search without the two \b: the word anywhere in the text.
re_search_word_NoBoundary(word, text) == IsSubstring(word, text)

\* re.search(rf"\b{word}\b", text)
re_search_word(word, text) ==
    \E i \in 1..(Len(text) - Len(word) + 1) :
        /\ Boundary(text, i - 1)
        /\ SubSeq(text, i, i + Len(word) - 1) = word
        /\ Boundary(text, i + Len(word) - 1)

UnsafeMessage(word) ==
    <<"The query is not allowed because it contains unsafe word '">> \o word \o <<"'">>

\* The words are searched in the order of PROHIBITED_WORDS, in the lowered
\* query; the first one found raises.
Unsafe(q) == { k \in DOMAIN PROHIBITED_WORDS : re_search_word(PROHIBITED_WORDS[k], q) }

check_prohibited_words(c0) ==
    Let(c0, LAMBDA c :
        Let(Unsafe(lower(c.query)), LAMBDA found :
            IF found = {}
            THEN c
            ELSE Raise(c, "UserError",
                       UnsafeMessage(PROHIBITED_WORDS[CHOOSE k \in found : \A j \in found : k <= j]))))

-----------------------------------------------------------------------------
(* SQLRequestMixin: cursors and savepoints.                                *)

QueryCr(c) == IF c.use_external_database THEN "external" ELSE "local"

\* get_external_cursor() of sql_db: a fresh connection to the external
\* database, with a transaction of its own.
get_external_cursor(c) ==
    [Log(c, Event("open", "external", NoText, NoText)) EXCEPT !.ext = {}]

get_cr_for_query(c0) ==
    Let(c0, LAMBDA c : IF c.use_external_database THEN get_external_cursor(c) ELSE c)

\* self._name.replace(".", "_")
ReplaceDots(name) == [i \in DOMAIN name |-> IF name[i] = "." THEN "_" ELSE name[i]]

\* "{}_{}".format(self._name.replace(".", "_"), uuid.uuid1().hex)
SavepointName(c, uuid) == ReplaceDots(c.name_) \o <<"_", uuid>>

Unbound == [bound |-> FALSE, name |-> NoText]
Bound(name) == [bound |-> TRUE, name |-> name]

create_savepoint(c0, cr, uuid) ==
    Let(c0, LAMBDA c :
        [cr_execute(c, cr, "SAVEPOINT", SavepointName(c, uuid), NoText, "ok", {}, {})
            EXCEPT !.sp = @ \cup
                {[name |-> SavepointName(c, uuid), cr |-> cr, snap |-> Content(c, cr)]}])

\* cr.close() of an external cursor: what its transaction did is gone.
cr_close(c, cr) == [Log(c, Event("close", cr, NoText, NoText)) EXCEPT !.ext = {}]

\* ROLLBACK TO SAVEPOINT brings back what the cursor saw when the savepoint
\* was made; the database raises when the cursor has no savepoint of the name.
rollback_savepoint(c0, rollback_name, cr) ==
    Let(c0, LAMBDA c :
        IF ~rollback_name.bound
        THEN Raise(c, "UnboundLocalError", <<"rollback_name">>)
        ELSE LET made == { s \in c.sp : s.name = rollback_name.name /\ s.cr = cr }
             IN  Let(Log(c, Event("ROLLBACK TO SAVEPOINT", cr, rollback_name.name, NoText)),
                     LAMBDA sent :
                        IF made = {}
                        THEN Raise(sent, "InternalError", <<"ROLLBACK TO SAVEPOINT">>)
                        ELSE Let(SetContent(sent, cr, Only(made).snap), LAMBDA back :
                                IF cr # "local" THEN cr_close(back, cr) ELSE back)))

\* float(".".join(res[:2])) < 9.3 for the server version major.minor, the
\* minor number written with `digits` digits: "9.10" reads as 9.1.
RECURSIVE Pow10(_)
Pow10(n) == IF n = 0 THEN 1 ELSE 10 * Pow10(n - 1)

Digits10(n) == IF n < 10 THEN 1 ELSE 2

VersionBelow93(v) ==
    \/ v[1] < 9
    \/ v[1] = 9 /\ v[2] * 10 < 3 * Pow10(Digits10(v[2]))

check_materialized_view_available(c, server_version) ==
    Let(cr_execute(c, "local", "SHOW server_version", NoText, NoText, "ok", {}, {}),
        LAMBDA shown :
            IF VersionBelow93(server_version)
            THEN Raise(shown, "UserError",
                       <<"Materialized View requires PostgreSQL 9.3 or greater">>)
            ELSE shown)


-----------------------------------------------------------------------------
(* BiSQLView: names.                                                       *)

sql_prefix == "x_bi_sql_view_"
model_prefix == "x_bi_sql_view."

\* _compute_view_name, _compute_model_name
view_name(c) == <<sql_prefix, c.technical_name>>
model_name(c) == <<model_prefix, c.technical_name>>

\* BiSQLView._log_execute: the statement goes to self.env.cr.
log_execute(c, stmt, name, body, result, adds, drops) ==
    cr_execute(c, "local", stmt, name, body, result, adds, drops)

-----------------------------------------------------------------------------
(* SQLRequestMixin: the execution probe.                                   *)

IsView(c) == c.name_ = NAME_VIEW

\* What the database does with a statement that holds the query: it rejects
\* a query it cannot parse, and otherwise answers as the environment says.
QueryResult(c, result) == IF ~c.catalog.ok THEN "ProgrammingError" ELSE result

\* What the database does with CREATE [MATERIALIZED] VIEW name AS (query).
CreateResult(c, cr, name, result) ==
    IF RelationExists(c, cr, name) THEN "ProgrammingError" ELSE QueryResult(c, result)

SideEffect(effect) == IF effect THEN {Object("effect", NoText, <<>>)} ELSE {}

\* _prepare_request_check_execution and the execute() of _check_execution:
\* the mixin sends the query itself, BiSQLView a CREATE VIEW view_name AS (query).
execute_check(c0, cr, e) ==
    Let(c0, LAMBDA c :
        IF IsView(c)
        THEN cr_execute(c, cr, "CREATE VIEW", view_name(c), c.query,
                        CreateResult(c, cr, view_name(c), e.result),
                        {Object("view", view_name(c), c.catalog.cols)}, {})
        ELSE cr_execute(c, cr, "QUERY", NoText, c.query,
                        QueryResult(c, e.result), SideEffect(e.effect), {}))

\* The rows of pg_attribute for a relation: (attnum, attname, type).
Attributes(cols) ==
    [i \in DOMAIN cols |-> [attnum |-> i, name |-> cols[i].name, type |-> cols[i].type]]

\* _hook_executed_request: the mixin returns False; BiSQLView reads the columns
\* of view_name from the catalog, through self.env.cr.
hook_executed_request(c0) ==
    Let(c0, LAMBDA c :
        IF IsView(c)
        THEN Let({ o \in c.db : o.kind \in Relations /\ o.name = view_name(c) }, LAMBDA found :
                Then(log_execute(c, "SELECT pg_attribute", view_name(c), NoText,
                                 IF found = {} THEN "ProgrammingError" ELSE "ok", {}, {}),
                     LAMBDA sent : [sent EXCEPT !.ret = Attributes(Only(found).cols)]))
        ELSE [c EXCEPT !.ret = <<>>])

\* A probe without the except clause.
WrapProgrammingError_None(c0) == c0

\* except ProgrammingError as e: raise UserError(...) from e
WrapProgrammingError(c0) ==
    Let(c0, LAMBDA c :
        IF c.exc = "ProgrammingError"
        THEN Raise(c, "UserError", <<"The SQL query is not valid:">>)
        ELSE c)

\* The rollback as the last statement of the try block, not in a finally.
FinallyRollback_OnSuccessOnly(c0, rollback_name, cr) ==
    Then(c0, LAMBDA c : rollback_savepoint(c, rollback_name, cr))

\* try: ... finally: self._rollback_savepoint(rollback_name, query_cr)
FinallyRollback(c0, rollback_name, cr) ==
    Let(c0, LAMBDA c : Finally(c, rollback_savepoint(NoPending(c), rollback_name, cr)))

\* SQLRequestMixin._check_execution
mixin_check_execution(c0, e) ==
    Let(c0, LAMBDA c :
        LET cr == QueryCr(c)
            rollback_name == Bound(SavepointName(c, e.uuid))
            saved == create_savepoint(get_cr_for_query(c), cr, e.uuid)
            hooked == Then(execute_check(saved, cr, e), hook_executed_request)
        IN  FinallyRollback(WrapProgrammingError(hooked), rollback_name, cr))

-----------------------------------------------------------------------------
(* SQLRequestMixin._execute_sql_request                                    *)

\* self.env.cr.mogrify(self.query, params).decode("utf-8") with params=None:
\* the query comes back unchanged.
mogrify(q) == q

\* The if / elif chain on mode.  `mode in "view"` is Python's substring test.
Branch(mode) ==
    IF mode \in {MODE_FETCHONE, MODE_FETCHALL} THEN "fetch"
    ELSE IF mode = MODE_STDOUT THEN "stdout"
    ELSE IF IsSubstring(mode, MODE_VIEW) THEN "view"
    ELSE IF IsSubstring(mode, MODE_MATERIALIZED_VIEW) THEN "materialized_view"
    ELSE "unimplemented"

\* if mode in ("view", "materialized_view"): rollback = False
EffectiveRollback(mode, rollback) ==
    IF mode \in {MODE_VIEW, MODE_MATERIALIZED_VIEW} THEN FALSE ELSE rollback

\* cr.execute(query) / cr.copy_expert(query, output) of the mode.
SendStatement(c, cr, a) ==
    LET q == mogrify(c.query)
        branch == Branch(a.mode)
    IN      CASE branch = "fetch" ->
                    cr_execute(c, cr, "QUERY", NoText, q,
                               QueryResult(c, a.result), SideEffect(a.effect), {})
              [] branch = "stdout" ->
                    cr_execute(c, cr, "COPY", NoText, q,
                               QueryResult(c, a.result), SideEffect(a.effect), {})
              [] branch = "view" ->
                    cr_execute(c, cr, "CREATE VIEW", q, a.view_name,
                               IF RelationExists(c, cr, q) THEN "ProgrammingError" ELSE a.result,
                               {Object("view", q, <<>>)}, {})
              [] OTHER ->
                    cr_execute(c, cr, "CREATE MATERIALIZED VIEW", q, a.view_name,
                               IF RelationExists(c, cr, q) THEN "ProgrammingError" ELSE a.result,
                               {Object("matview", q, <<>>)}, {})

\* The body of the try block: the statement, then the rows; the header of
\* fetchall is read from self.env.cr.description.
execute_statement(c0, cr, a) ==
    Let(c0, LAMBDA c :
        Then(SendStatement(c, cr, a), LAMBDA sent :
            IF a.mode = MODE_FETCHALL /\ a.header /\ cr # "local" /\ ~a.description
            THEN Raise(sent, "TypeError", <<"'NoneType' object is not iterable">>)
            ELSE sent))

\* The state guard left out.
NotChecked_NoGuard(c) == FALSE

\* if self.state == "draft": raise UserError(...)
NotChecked(c) == c.state = "draft"

\* query_cr = self._get_cr_for_query(); the savepoint; try: ... finally: ...
RunStatement(c0, a) ==
    Let(c0, LAMBDA c :
        LET rollback == EffectiveRollback(a.mode, a.rollback)
            cr == QueryCr(c)
            rollback_name == IF rollback THEN Bound(SavepointName(c, a.uuid)) ELSE Unbound
            opened == get_cr_for_query(c)
            saved == IF rollback THEN create_savepoint(opened, cr, a.uuid) ELSE opened
        IN  FinallyRollback(execute_statement(saved, cr, a), rollback_name, cr))

execute_sql_request(c0, a) ==
    Let(c0, LAMBDA c :
        IF NotChecked(c)
        THEN Raise(c, "UserError", <<"It is not allowed to execute a not checked request.">>)
        ELSE IF Branch(a.mode) = "unimplemented"
        THEN Raise(c, "UserError", <<"Unimplemented mode : '">> \o a.mode \o <<"'">>)
        ELSE Then(IF Branch(a.mode) = "materialized_view"
                  THEN check_materialized_view_available(c, a.server_version)
                  ELSE c,
                  LAMBDA checked : RunStatement(checked, a)))


-----------------------------------------------------------------------------
(* The ORM, as BiSQLView uses it.                                          *)

\* The Many2one fields of a view that hold what the view owns.
UiKinds == <<"tree_view_id", "graph_view_id", "pivot_view_id", "search_view_id",
             "action_id", "menu_id">>
ModelKinds == <<"model_id", "rule_id", "cron_id">>
Kinds == Range(UiKinds) \cup Range(ModelKinds)

\* The empty Many2one.
NoRecord == 0

NewId(ids) == CHOOSE i \in 1..(Cardinality(ids) + 1) : i \notin ids

\* The name of the record, an atom of the texts made of it.
RECORD_NAME == "Sales"

\* _prepare_action_name: the name, and the time when the view is materialized.
prepare_action_name(c) ==
    IF ~c.is_materialized THEN <<RECORD_NAME>> ELSE <<RECORD_NAME, c.now>>

\* self.<field> = self.env[...].create(...).id, with the values _prepare_menu
\* and _prepare_action give the menu and the action.
orm_create(c0, kind) ==
    Let(c0, LAMBDA c :
        Let(NewId(c.orm[kind]), LAMBDA id :
            [Log(c, Event("create", "", <<kind>>, NoText))
                EXCEPT !.orm[kind] = @ \cup {id}, !.refs[kind] = id,
                       !.menu_sequence = IF kind = "menu_id" THEN c.sequence ELSE @,
                       !.action_name = IF kind = "action_id"
                                       THEN prepare_action_name(c) ELSE @]))

\* self.<field>.unlink(): the record goes, and the Many2one that held it is
\* emptied; an empty Many2one unlinks nothing.
orm_unlink(c0, kind) ==
    Let(c0, LAMBDA c :
        IF c.refs[kind] = NoRecord THEN c
        ELSE [Log(c, Event("unlink", "", <<kind>>, NoText))
                EXCEPT !.orm[kind] = @ \ {c.refs[kind]}, !.refs[kind] = NoRecord,
                       !.menu_sequence = IF kind = "menu_id" THEN 0 ELSE @,
                       !.action_name = IF kind = "action_id" THEN NoText ELSE @])

RECURSIVE orm_create_all(_, _)
orm_create_all(c0, kinds) ==
    Let(c0, LAMBDA c :
        IF kinds = <<>> THEN c ELSE orm_create_all(orm_create(c, Head(kinds)), Tail(kinds)))

RECURSIVE orm_unlink_all(_, _)
orm_unlink_all(c0, kinds) ==
    Let(c0, LAMBDA c :
        IF kinds = <<>> THEN c ELSE orm_unlink_all(orm_unlink(c, Head(kinds)), Tail(kinds)))

\* ir.model.create() of a manual model builds the table of the model, named
\* as the view is, when no relation has the name.
ir_model_create(c) ==
    Let(orm_create(c, "model_id"), LAMBDA made :
        IF RelationExists(made, "local", view_name(made)) THEN made
        ELSE [made EXCEPT !.db = @ \cup {Object("table", view_name(made), <<>>)}])

\* ir.model.unlink(): the access grants of the model go with it, and so does
\* the table or plain view of the model; a materialized view stays.
ir_model_unlink(c0) ==
    Let(c0, LAMBDA c :
        [orm_unlink(c, "model_id") EXCEPT
            !.access = { g \in @ : g.model # c.refs["model_id"] },
            !.db = { o \in @ : ~(o.kind \in {"table", "view"} /\ o.name = view_name(c)) }])

\* ir.ui.view and ir.actions.act_window need the model of the view.
OrmAcceptsUi(c) == c.refs["model_id"] # NoRecord

-----------------------------------------------------------------------------
(* BiSQLView: the fields of the view, and the schema synchronization.      *)

X_PREFIX == <<"x", "_">>

\* column[1][:2]
Prefix2(name) == SubSeq(name, 1, IF Len(name) < 2 THEN Len(name) ELSE 2)

Field(id, column) ==
    [id |-> id, name |-> column.name, sequence |-> column.attnum,
     sql_type |-> column.type, is_index |-> FALSE, ttype |-> "char",
     many2one_model_id |-> NoRecord, graph_type |-> "none",
     field_description |-> NoText]

FieldIds(fs) == { f.id : f \in fs }

\* A turn that writes every attribute of the field it meets.
SyncColumn_Recreate(st0, column) ==
    Let(st0, LAMBDA st :
    LET existing == { f \in st.fields : f.name = column.name }
    IN  IF existing # {}
        THEN [st EXCEPT
                !.field_ids = @ \cup FieldIds(existing),
                !.fields = (@ \ existing) \cup { Field(f.id, column) : f \in existing },
                !.events = Append(@, Event("write", "", <<"bi.sql.view.field">>, column.name))]
        ELSE IF Prefix2(column.name) = X_PREFIX
        THEN LET id == NewId(FieldIds(st.fields))
             IN  [st EXCEPT
                    !.field_ids = @ \cup {id},
                    !.fields = @ \cup {Field(id, column)},
                    !.events = Append(@, Event("create", "", <<"bi.sql.view.field">>, column.name))]
        ELSE st)

\* A turn that never looks for the field of the column.
SyncColumn_AlwaysCreate(st0, column) ==
    Let(st0, LAMBDA st :
        IF Prefix2(column.name) = X_PREFIX
        THEN LET id == NewId(FieldIds(st.fields))
             IN  [st EXCEPT
                    !.field_ids = @ \cup {id},
                    !.fields = @ \cup {Field(id, column)},
                    !.events = Append(@, Event("create", "", <<"bi.sql.view.field">>, column.name))]
        ELSE st)

\* One turn of the loop over the columns: `st` holds the fields of the view
\* and field_ids.
SyncColumn(st0, column) ==
    Let(st0, LAMBDA st :
    LET existing == { f \in st.fields : f.name = column.name }
    IN  IF existing # {}
        THEN [st EXCEPT
                !.field_ids = @ \cup FieldIds(existing),
                !.fields = (@ \ existing) \cup
                    { [f EXCEPT !.sequence = column.attnum, !.sql_type = column.type]
                        : f \in existing },
                !.events = Append(@, Event("write", "", <<"bi.sql.view.field">>, column.name))]
        ELSE IF Prefix2(column.name) = X_PREFIX
        THEN LET id == NewId(FieldIds(st.fields))
             IN  [st EXCEPT
                    !.field_ids = @ \cup {id},
                    !.fields = @ \cup {Field(id, column)},
                    !.events = Append(@, Event("create", "", <<"bi.sql.view.field">>, column.name))]
        ELSE st)

RECURSIVE SyncColumns(_, _)
SyncColumns(st0, columns) ==
    Let(st0, LAMBDA st :
        IF columns = <<>> THEN st
        ELSE SyncColumns(SyncColumn(st, Head(columns)), Tail(columns)))

\* An end of the loop that keeps the fields it did not meet.
Synchronized_KeepObsolete(probed, st) ==
    [probed EXCEPT !.fields = st.fields, !.trace = @ \o st.events]

\* BiSQLView._check_execution
\* The fields the loop did not meet are unlinked.
Synchronized(probed, st) ==
    LET obsolete == { f \in st.fields : f.id \notin st.field_ids }
    IN  [probed EXCEPT
            !.fields = st.fields \ obsolete,
            !.trace = @ \o st.events \o
                (IF obsolete = {} THEN <<>>
                 ELSE <<Event("unlink", "", <<"bi.sql.view.field">>, NoText)>>)]

\* A check that accepts a view without fields.
view_check_execution_NoEmptyCheck(c, e) ==
    Then(mixin_check_execution(c, e), LAMBDA probed :
        Let(SyncColumns([fields |-> probed.fields, field_ids |-> {}, events |-> <<>>],
                        probed.ret), LAMBDA st :
            Synchronized(probed, st)))

\* BiSQLView._check_execution
view_check_execution(c, e) ==
    Then(mixin_check_execution(c, e), LAMBDA probed :
        Let(SyncColumns([fields |-> probed.fields, field_ids |-> {}, events |-> <<>>],
                        probed.ret), LAMBDA st :
            Let(Synchronized(probed, st), LAMBDA synced :
                IF synced.fields = {}
                THEN Raise(synced, "UserError", <<"No Column was found.">>)
                ELSE synced)))


-----------------------------------------------------------------------------
(* SQLRequestMixin: the buttons.                                           *)

\* The capability flags of the class.
clean_query_enabled == TRUE
check_prohibited_words_enabled == TRUE
check_execution_enabled == TRUE

\* item.state = value, and write({"state": value})
write_state(c0, value) ==
    Let(c0, LAMBDA c :
        [Log(c, Event("write", "", <<"state">>, <<value>>)) EXCEPT !.state = value])

\* _check_execution, as the class of the record defines it.
check_execution(c, e) ==
    IF IsView(c) THEN view_check_execution(c, e) ELSE mixin_check_execution(c, e)

\* The probe before the prohibited-word check.
ValidateSteps_ProbeFirst == <<"clean_query", "check_execution", "check_prohibited_words">>

\* The order in which button_validate_sql_expression runs its steps.
ValidateSteps == <<"clean_query", "check_prohibited_words", "check_execution">>

RunStep(c, step, e) ==
    CASE step = "clean_query" ->
            IF clean_query_enabled THEN clean_query(c) ELSE c
      [] step = "check_prohibited_words" ->
            IF check_prohibited_words_enabled THEN check_prohibited_words(c) ELSE c
      [] OTHER ->
            IF check_execution_enabled THEN check_execution(c, e) ELSE c

RECURSIVE RunSteps(_, _, _)
RunSteps(c0, steps, e) ==
    Let(c0, LAMBDA c :
        IF steps = <<>> \/ Failed(c) THEN c
        ELSE RunSteps(RunStep(c, Head(steps), e), Tail(steps), e))

button_validate_sql_expression(c, e) ==
    Then(RunSteps(c, ValidateSteps, e), LAMBDA checked : write_state(checked, "sql_valid"))

\* An onchange that raises the flag in every state.
onchange_group_ids_AnyState(c) == [c EXCEPT !.has_group_changed = TRUE]

\* SQLRequestMixin.onchange_group_ids
onchange_group_ids(c) ==
    IF c.state \notin {"draft", "sql_valid"} THEN [c EXCEPT !.has_group_changed = TRUE] ELSE c

\* The allowed groups are set to gs: in the form of the record, where the
\* onchange runs before the values are saved, or by a plain write().
change_group_ids(c0, gs, form) ==
    Let(c0, LAMBDA c :
        Let([Log(c, Event("write", "", <<"group_ids">>, NoText)) EXCEPT !.group_ids = gs],
            LAMBDA edited : IF form THEN onchange_group_ids(edited) ELSE edited))

\* SQLRequestMixin.button_set_draft
mixin_button_set_draft(c) ==
    [write_state(c, "draft") EXCEPT !.has_group_changed = FALSE]

\* write({"query": q}): the field is stored as given.
write_query(c, q) == [c EXCEPT !.query = q]

\* vals.get("sequence", False) as a condition: 0 is false.
Truthy(v) == v # 0

\* BiSQLView.write({"sequence": v}): the value is stored, and goes to the menu
\* of the view when the condition on vals holds.
write_sequence(c0, v) ==
    Let(c0, LAMBDA c :
        Let([Log(c, Event("write", "", <<"sequence">>, <<v>>)) EXCEPT !.sequence = v],
            LAMBDA written :
                IF Truthy(v) /\ written.refs["menu_id"] # NoRecord
                THEN [Log(written, Event("write", "", <<"menu_id.sequence">>,
                                         <<written.sequence>>))
                        EXCEPT !.menu_sequence = written.sequence]
                ELSE written))

\* A constraint that accepts every view.
check_index_materialized_None(c) == c

\* _check_index_materialized: a view that is not materialized has no field
\* flagged is_index.
check_index_materialized(c) ==
    IF ~c.is_materialized /\ (\E f \in c.fields : f.is_index)
    THEN Raise(c, "UserError", <<"You can not create indexes on non materialized views">>)
    ELSE c

\* write({"is_materialized": v}): the constraint runs on the written record,
\* and the write is undone when it raises.
write_is_materialized(c0, v) ==
    Let(c0, LAMBDA c :
        Let(check_index_materialized([c EXCEPT !.is_materialized = v]), LAMBDA written :
            IF Failed(written) THEN Raise(c, written.exc, written.msg) ELSE written))

\* write(vals) on the field `id` of the view: the values are stored as given.
write_field(c0, id, vals) ==
    Let(c0, LAMBDA c :
        [Log(c, Event("write", "", <<"bi.sql.view.field">>, NoText)) EXCEPT
            !.fields = { IF f.id # id THEN f
                         ELSE [f EXCEPT !.graph_type = vals.graph_type,
                                        !.is_index = vals.is_index,
                                        !.field_description = vals.field_description,
                                        !.ttype = vals.ttype,
                                        !.many2one_model_id = vals.many2one_model_id]
                         : f \in c.fields }])

-----------------------------------------------------------------------------
(* BiSQLView: the database view.                                           *)

ViewKind(c) == IF c.is_materialized THEN "matview" ELSE "view"

\* The columns _prepare_request_for_execution puts before those of the query.
OrmColumns ==
    << [name |-> <<"i", "d">>, type |-> "integer"],
       [name |-> <<"c", "r", "e", "a", "t", "e", "_", "d", "a", "t", "e">>, type |-> "timestamp without time zone"],
       [name |-> <<"c", "r", "e", "a", "t", "e", "_", "u", "i", "d">>, type |-> "integer"],
       [name |-> <<"w", "r", "i", "t", "e", "_", "d", "a", "t", "e">>, type |-> "timestamp without time zone"],
       [name |-> <<"w", "r", "i", "t", "e", "_", "u", "i", "d">>, type |-> "integer"] >>

\* DROP [MATERIALIZED] VIEW IF EXISTS view_name: the database raises when the
\* name is that of a relation of another kind.
drop_view(c0) ==
    Let(c0, LAMBDA c :
        LET named == { o \in c.db : o.kind \in Relations /\ o.name = view_name(c) }
            wrong == { o \in named : o.kind # ViewKind(c) }
            indexes == { o \in c.db : o.kind = "index" /\ o.name = view_name(c) }
        IN  Then(log_execute(c, IF c.is_materialized THEN "DROP MATERIALIZED VIEW IF EXISTS"
                                ELSE "DROP VIEW IF EXISTS",
                             view_name(c), NoText,
                             IF wrong # {} THEN "ProgrammingError" ELSE "ok",
                             {}, named \cup indexes),
                 LAMBDA sent : [sent EXCEPT !.size = "False"]))

\* SELECT pg_size_pretty(pg_total_relation_size(view_name))
refresh_size(c0, e) ==
    Let(c0, LAMBDA c :
        Then(log_execute(c, "SELECT pg_size_pretty", view_name(c), NoText,
                         IF RelationExists(c, "local", view_name(c))
                         THEN "ok" ELSE "ProgrammingError", {}, {}),
             LAMBDA sent : [sent EXCEPT !.size = e.size]))

\* sql_view.action_id.name = sql_view._prepare_action_name()
rename_action(c0) ==
    Let(c0, LAMBDA c :
        IF c.refs["action_id"] = NoRecord THEN c
        ELSE [Log(c, Event("write", "", <<"action_id.name">>, NoText))
                EXCEPT !.action_name = prepare_action_name(c)])

\* REFRESH MATERIALIZED VIEW view_name: the database raises when there is no
\* such materialized view, and otherwise answers as the environment says.
execute_refresh(c0, e) ==
    Let(c0, LAMBDA c :
        log_execute(c, "REFRESH MATERIALIZED VIEW", view_name(c), NoText,
                    IF \E o \in c.db : o.kind = "matview" /\ o.name = view_name(c)
                    THEN e.result ELSE "ProgrammingError",
                    {}, {}))

\* A refresh of every view, materialized or not.
refresh_materialized_view_NoFilter(c, e) ==
    Then(Then(execute_refresh(c, e), LAMBDA sent : refresh_size(sent, e)),
         rename_action)

\* _refresh_materialized_view
refresh_materialized_view(c, e) ==
    IF ~c.is_materialized THEN c
    ELSE Then(Then(execute_refresh(c, e), LAMBDA sent : refresh_size(sent, e)),
              rename_action)

\* _refresh_materialized_view_cron: the search keeps the view when it is
\* materialized, model_valid or ui_valid, and among view_ids.
refresh_materialized_view_cron(c, listed, e) ==
    IF c.is_materialized /\ c.state \in {"model_valid", "ui_valid"} /\ listed
    THEN refresh_materialized_view(c, e)
    ELSE c

\* except ProgrammingError as e: raise UserError(...) from e
WrapCreateError(c0) ==
    Let(c0, LAMBDA c :
        IF c.exc = "ProgrammingError"
        THEN Raise(c, "UserError", <<"SQL Error while creating VIEW">>)
        ELSE c)

\* self._log_execute(sql_view._prepare_request_for_execution())
execute_create_view(c0, e) ==
    Let(c0, LAMBDA c :
        log_execute(c, IF c.is_materialized THEN "CREATE MATERIALIZED VIEW" ELSE "CREATE VIEW",
                    view_name(c), c.query,
                    CreateResult(c, "local", view_name(c), e.result),
                    {Object(ViewKind(c), view_name(c), OrmColumns \o c.catalog.cols)},
                    {}))

create_view(c, e) ==
    Then(drop_view(c), LAMBDA dropped :
        WrapCreateError(Then(execute_create_view(dropped, e),
                             LAMBDA created : refresh_size(created, e))))

\* CREATE INDEX index_name ON view_name (name): the database has no index on
\* a plain view, and otherwise answers as the environment says.
RECURSIVE create_indexes(_, _, _)
create_indexes(c0, fs, e) ==
    Let(c0, LAMBDA c :
        IF fs = {} \/ Failed(c) THEN c
        ELSE LET f == CHOOSE f \in fs : \A g \in fs : f.sequence <= g.sequence
             IN  create_indexes(
                    log_execute(c, "CREATE INDEX", view_name(c), f.name,
                                IF c.is_materialized THEN e.index ELSE "ProgrammingError",
                                {Object("index", view_name(c),
                                        <<[name |-> f.name, type |-> f.sql_type]>>)}, {}),
                    fs \ {f}, e))

\* One CREATE INDEX per field flagged is_index.
create_index(c, e) == create_indexes(c, { f \in c.fields : f.is_index }, e)

\* _create_model_and_fields: the model, the rule, and the table of the ORM dropped.
create_model_and_fields(c) ==
    Let(orm_create(ir_model_create(c), "rule_id"), LAMBDA ruled :
        LET tables == { o \in ruled.db : o.kind = "table" /\ o.name = view_name(ruled) }
        IN  IF RelationExists(ruled, "local", view_name(ruled))
            THEN log_execute(ruled, "DROP TABLE", view_name(ruled), NoText,
                             IF tables = {} THEN "ProgrammingError" ELSE "ok", {}, tables)
            ELSE ruled)

\* _create_model_access: one read-only grant per allowed group.
create_model_access(c0) ==
    Let(c0, LAMBDA c :
        [Log(c, Event("create", "", <<"ir.model.access">>, NoText))
            EXCEPT !.access = @ \cup
                { [model |-> c.refs["model_id"], group |-> g] : g \in c.group_ids }])

\* _drop_model_access: the grants on the model of the view are unlinked.
drop_model_access(c0) ==
    Let(c0, LAMBDA c :
        [Log(c, Event("unlink", "", <<"ir.model.access">>, NoText))
            EXCEPT !.access = { g \in @ : g.model # c.refs["model_id"] }])

\* button_update_model_access
button_update_model_access(c) ==
    Let(create_model_access(drop_model_access(c)), LAMBDA granted :
        [Log(granted, Event("write", "", <<"has_group_changed">>, <<"False">>))
            EXCEPT !.has_group_changed = FALSE])

\* _drop_model_and_fields
drop_model_and_fields(c) ==
    Let(orm_unlink(c, "rule_id"), LAMBDA unruled :
        IF unruled.refs["model_id"] # NoRecord THEN ir_model_unlink(unruled) ELSE unruled)

\* A refresh task made each time the view is.
activate_cron_AlwaysCreate(c0) ==
    Let(c0, LAMBDA c :
        IF ~c.is_materialized THEN c
        ELSE Let(orm_create(c, "cron_id"), LAMBDA made :
                [made EXCEPT !.cron_active = @ \cup {made.refs["cron_id"]}]))

\* if sql_view.is_materialized: the refresh task is made once, and switched
\* on again afterwards.
activate_cron(c0) ==
    Let(c0, LAMBDA c :
        IF ~c.is_materialized THEN c
        ELSE IF c.refs["cron_id"] = NoRecord
        THEN Let(orm_create(c, "cron_id"), LAMBDA made :
                [made EXCEPT !.cron_active = @ \cup {made.refs["cron_id"]}])
        ELSE [Log(c, Event("write", "", <<"cron_id.active">>, <<"True">>))
                EXCEPT !.cron_active = @ \cup {c.refs["cron_id"]}])

\* The refresh task deleted, not switched off.
deactivate_cron_Unlink(c0) == orm_unlink(c0, "cron_id")

\* if sql_view.cron_id: sql_view.cron_id.active = False
deactivate_cron(c0) ==
    Let(c0, LAMBDA c :
        IF c.refs["cron_id"] = NoRecord THEN c
        ELSE [Log(c, Event("write", "", <<"cron_id.active">>, <<"False">>))
                EXCEPT !.cron_active = @ \ {c.refs["cron_id"]}])

-----------------------------------------------------------------------------
(* BiSQLView: the buttons.                                                 *)

\* A check that finds every field in order.
BadFields_None(c) == {}

\* x.ttype == "many2one" and not x.many2one_model_id.id
BadFields(c) ==
    { f \in c.fields : f.ttype = "many2one" /\ f.many2one_model_id = NoRecord }

\* ",".join(bad_fields.mapped("name")), the fields in the order of their sequence.
RECURSIVE JoinNames(_)
JoinNames(fs) ==
    IF fs = {} THEN NoText
    ELSE LET f == CHOOSE f \in fs : \A g \in fs : f.sequence <= g.sequence
         IN  IF fs = {f} THEN f.name ELSE f.name \o <<",">> \o JoinNames(fs \ {f})

\* The database view made before the model that reads it.
ModelSteps_ViewFirst == <<"create_view", "create_index", "create_model_and_fields",
                          "create_model_access", "cron">>

\* The steps of button_create_sql_view_and_model after the check of the fields.
ModelSteps == <<"create_model_and_fields", "create_model_access", "create_view",
                "create_index", "cron">>

ModelStep(c, step, e) ==
    CASE step = "create_model_and_fields" -> create_model_and_fields(c)
      [] step = "create_model_access" -> create_model_access(c)
      [] step = "create_view" -> create_view(c, e)
      [] step = "create_index" -> create_index(c, e)
      [] OTHER -> activate_cron(c)

RECURSIVE RunModelSteps(_, _, _)
RunModelSteps(c0, steps, e) ==
    Let(c0, LAMBDA c :
        IF steps = <<>> \/ Failed(c) THEN c
        ELSE RunModelSteps(ModelStep(c, Head(steps), e), Tail(steps), e))

button_create_sql_view_and_model(c0, e) ==
    Let(c0, LAMBDA c :
        IF c.state # "sql_valid" THEN c
        ELSE IF BadFields(c) # {}
        THEN Raise(c, "ValidationError",
                   <<"Please set related models on the following fields ">>
                        \o JoinNames(BadFields(c)))
        ELSE Then(RunModelSteps(c, ModelSteps, e),
                  LAMBDA built : write_state(built, "model_valid")))

button_reset_to_model_valid(c0) ==
    Let(c0, LAMBDA c :
        IF c.state # "ui_valid" THEN c
        ELSE write_state(orm_unlink_all(c, UiKinds), "model_valid"))

\* The loop with the ORM dropped first, and the database view after it.
LowerToSqlValid_ModelFirst(c) ==
    Then(Then(Then(drop_model_and_fields(c),
                   deactivate_cron),
              LAMBDA unmodelled : IF unmodelled.is_materialized
                                  THEN drop_view(unmodelled) ELSE unmodelled),
         LAMBDA dropped : write_state(dropped, "sql_valid"))

\* The body of the loop of button_reset_to_sql_valid, and the write after it.
LowerToSqlValid(c) ==
    Then(Then(Then(IF c.is_materialized THEN drop_view(c) ELSE c,
                   deactivate_cron),
              drop_model_and_fields),
         LAMBDA unmodelled : write_state(unmodelled, "sql_valid"))

button_reset_to_sql_valid(c) ==
    Let(button_reset_to_model_valid(c), LAMBDA lowered :
        IF lowered.state # "model_valid" THEN lowered ELSE LowerToSqlValid(lowered))

\* A button that also empties the fields of the view.
view_button_set_draft_ClearFields(c) ==
    Then(button_reset_to_sql_valid(button_reset_to_model_valid(c)),
         LAMBDA lowered : [mixin_button_set_draft(lowered) EXCEPT !.fields = {}])

view_button_set_draft(c) ==
    Then(button_reset_to_sql_valid(button_reset_to_model_valid(c)), mixin_button_set_draft)

\* The ORM refuses an ir.ui.view or an action of a model that is not there.
button_create_ui(c0) ==
    Let(c0, LAMBDA c :
        IF ~OrmAcceptsUi(c)
        THEN Raise(c, "ValidationError", <<"ir.ui.view">>)
        ELSE write_state(orm_create_all(c, UiKinds), "ui_valid"))

\* The arguments _execute_sql_request takes when it is called with none.
DefaultArgs(e, result) ==
    [mode |-> MODE_FETCHALL, rollback |-> TRUE, view_name |-> NoText,
     header |-> FALSE, description |-> TRUE, server_version |-> <<9, 3>>,
     uuid |-> e.uuid, result |-> result, effect |-> e.effect]

\* button_preview_sql_expression: validate, execute with the default
\* arguments, and show the rows in a UserError.
button_preview_sql_expression(c, e, result) ==
    Then(Then(button_validate_sql_expression(c, e),
              LAMBDA validated : execute_sql_request(validated, DefaultArgs(e, result))),
         LAMBDA executed : Raise(executed, "UserError", <<"rows">>))

-----------------------------------------------------------------------------
(* The inputs the actions draw.                                            *)

ATOM_DROP == <<"d", "r", "o", "p">>
ATOM_DROP_UPPER == <<"D", "R", "O", "P">>
ATOM_UPDATE == <<"U", "p", "D", "a", "t", "e">>
ATOM_D_AT == <<"d", "_", "a", "t">>
ATOM_X == <<"x">>
ATOM_TERMINATOR == <<";">>
ATOM_SPACE == <<" ">>
ATOM_NEWLINE == <<"\n">>

\* The queries of the sanitizer specification.
QueryAtoms == {ATOM_DROP, ATOM_UPDATE, ATOM_D_AT, ATOM_X,
               ATOM_TERMINATOR, ATOM_SPACE, ATOM_NEWLINE}
SanitizerQueries == Texts(QueryAtoms, MaxQueryAtoms)

\* The queries of the lifecycle specifications.
Atoms == {ATOM_DROP_UPPER, ATOM_X, ATOM_TERMINATOR}
Queries == Texts(Atoms, MaxAtoms)
ViewQueries == Texts(Atoms, MaxViewAtoms)

\* Mode strings: the five the code names, one that is part of one of them,
\* and one that is not.
Modes == {MODE_FETCHALL, MODE_FETCHONE, MODE_STDOUT, MODE_VIEW, MODE_MATERIALIZED_VIEW,
          <<"v", "i", "e">>, <<"c", "s", "v">>}

UUIDs == {"6f1c9e0a"}

\* How the database answers a statement it can parse.
DbResults == {"ok", "ProgrammingError", "OperationalError"}

\* How the database answers the query of a request, when it can parse it.
QueryResults == {"ok", "OperationalError"}

ServerVersions == {<<9, 2>>, <<9, 3>>}

ViewNames == {<<"v">>}

\* The database's answer for the query of a plain request: whether it parses.
RequestCatalogs == {[ok |-> b, cols |-> <<>>] : b \in BOOLEAN}

ExecuteArgs ==
    { a \in [mode : Modes, rollback : BOOLEAN, view_name : ViewNames,
             header : BOOLEAN, description : BOOLEAN,
             server_version : ServerVersions, uuid : UUIDs,
             result : QueryResults, effect : BOOLEAN] :
        /\ (a.mode # MODE_FETCHALL => ~a.header)
        /\ (~a.header => a.description)
        /\ (Branch(a.mode) # "materialized_view" => a.server_version = <<9, 3>>)
        /\ (Branch(a.mode) \notin {"fetch", "stdout"} \/ a.result # "ok" => ~a.effect) }

ProbeEnvs ==
    { e \in [uuid : UUIDs, result : QueryResults, effect : BOOLEAN] :
        e.result # "ok" => ~e.effect }



Columns == { [name |-> <<"x", "_", "a">>, type |-> "integer"],
             [name |-> <<"a">>, type |-> "integer"] }

\* The column lists of a query: no two columns have the same name.
Manifests ==
    UNION { { m \in [1..k -> Columns] :
                \A i, j \in 1..k : m[i].name = m[j].name => i = j } : k \in 0..MaxCols }

\* The database's answer for the query of a view: its columns, if it parses.
ViewCatalogs == {[ok |-> FALSE, cols |-> <<>>]} \cup {[ok |-> TRUE, cols |-> m] : m \in Manifests}

Catalogs == IF name_ = NAME_VIEW THEN ViewCatalogs ELSE RequestCatalogs

\* Columns of two types, with and without the prefix.
SyncCols == { [name |-> <<"x", "_", "a">>, type |-> "integer"],
              [name |-> <<"x", "_", "a">>, type |-> "text"],
              [name |-> <<"x", "_", "b">>, type |-> "integer"],
              [name |-> <<"a">>, type |-> "integer"] }

SyncManifests ==
    UNION { { m \in [1..k -> SyncCols] :
                \A i, j \in 1..k : m[i].name = m[j].name => i = j } : k \in 0..MaxSyncCols }

SyncCatalogs ==
    {[ok |-> FALSE, cols |-> <<>>]} \cup {[ok |-> TRUE, cols |-> m] : m \in SyncManifests}

\* What a user sets on a field of the view: the index flag only on a
\* materialized view, the relation with or without its model.
FieldVals(c) ==
    { [graph_type |-> "row", is_index |-> c.is_materialized,
       field_description |-> <<"A">>,
       ttype |-> "many2one", many2one_model_id |-> m] : m \in {NoRecord, 1} }

Sizes == {"8192 bytes", "16 kB"}

\* The other views of the database: each has a state.
OtherViews ==
    UNION { [S -> Range(STATE_SELECTION \o STATE_SQL_EDITOR)] : S \in SUBSET (1..MaxOthers) }

\* The sets of groups a user allows.
GroupSets == { {}, {"group_sql_request_user"}, {"group_sql_request_user", "group_system"} }

\* The values a user gives the sequence of a view.
Sequences == 0..MaxSequence

\* How the database answers CREATE INDEX on a materialized view.
IndexResults == {"ok", "ProgrammingError"}

\* What a call on the database view meets: the answers of the database, where
\* they make a difference.
ModelEnvs ==
    { e \in [result : DbResults, size : Sizes, index : IndexResults] :
        e.index # "ok" => e.result = "ok" /\ e.size = "16 kB" }

\* A database that runs every statement it can run.
ConcurrentEnvs == { e \in ModelEnvs : e.result = "ok" /\ e.index = "ok" }

-----------------------------------------------------------------------------
(* The state machine.                                                      *)

\* A check that lets only draft views go.
UnlinkRefused_DraftOnly(s) == s # "draft"

\* view.state not in ("draft", "sql_valid")
UnlinkRefused(s) == s \notin {"draft", "sql_valid"}

\* The states of the views of a set.
UnlinkStates(self_in, ids) ==
    (IF self_in THEN {state} ELSE {}) \cup { others[i] : i \in ids }

\* _check_unlink_constraints: any(...) over the set raises.
check_unlink_constraints(states) == \E s \in states : UnlinkRefused(s)

\* The sessions that run _create_view on the view.
Sessions == 1..MaxSessions

\* The context a method starts with: the record, the database and the ORM as
\* they are, nothing sent and nothing raised.
Cur ==
    [name_ |-> name_, state |-> state, query |-> query,
     use_external_database |-> use_external_database,
     has_group_changed |-> has_group_changed, group_ids |-> group_ids,
     technical_name |-> technical_name, is_materialized |-> is_materialized,
     size |-> size, sequence |-> sequence,
     menu_sequence |-> menu_sequence, action_name |-> action_name, now |-> now, fields |-> fields, refs |-> refs, orm |-> orm,
     access |-> access, cron_active |-> cron_active, catalog |-> catalog,
     db |-> db, ext |-> {}, sp |-> {}, ret |-> <<>>,
     exc |-> "none", msg |-> NoText, trace |-> <<>>]

\* The method has returned or raised: what it left behind.
CommitAs(c0, called, ss, log) ==
    \E c \in {c0} :
    /\ alive
    /\ UNCHANGED <<alive, others>>
    /\ sessions' = ss
    /\ dblog' = log
    /\ name_' = c.name_
    /\ state' = c.state
    /\ query' = c.query
    /\ use_external_database' = c.use_external_database
    /\ has_group_changed' = c.has_group_changed
    /\ group_ids' = c.group_ids
    /\ technical_name' = c.technical_name
    /\ is_materialized' = c.is_materialized
    /\ size' = c.size
    /\ sequence' = c.sequence
    /\ menu_sequence' = c.menu_sequence
    /\ action_name' = c.action_name
    /\ now' = c.now
    /\ fields' = c.fields
    /\ refs' = c.refs
    /\ orm' = c.orm
    /\ access' = c.access
    /\ cron_active' = c.cron_active
    /\ catalog' = c.catalog
    /\ db' = c.db
    /\ call' = called
    /\ outcome' = IF c.exc = "none" THEN "ok" ELSE c.exc
    /\ message' = c.msg
    /\ trace' = c.trace

\* A method of the one session the other specifications follow.
CommitCall(c0, called) == CommitAs(c0, called, sessions, dblog)

Commit(c0, op, mode, rollback) ==
    CommitCall(c0, [op |-> op, mode |-> mode, rollback |-> rollback])

\* A record as create() leaves it, but for the fields the user fills in.
InitRecord ==
    /\ alive = TRUE
    /\ sessions = [s \in Sessions |-> [pc |-> "drop", exc |-> "none"]]
    /\ dblog = <<>>
    /\ state = "draft"
    /\ has_group_changed = FALSE
    /\ group_ids = {"group_sql_request_user"}
    /\ technical_name = "sales"
    /\ size = "False"
    /\ sequence = 0
    /\ menu_sequence = 0
    /\ action_name = NoText
    /\ now = 0
    /\ fields = {}
    /\ refs = [k \in Kinds |-> NoRecord]
    /\ orm = [k \in Kinds |-> {}]
    /\ access = {}
    /\ cron_active = {}
    /\ db = {}
    /\ call = [op |-> "create", mode |-> NoText, rollback |-> FALSE]
    /\ outcome = "ok"
    /\ message = NoText
    /\ trace = <<>>

\* The sanitizer alone, on a draft request with any query.
InitSanitizer ==
    /\ InitRecord
    /\ name_ = NAME_REQUEST
    /\ query \in SanitizerQueries
    /\ others = <<>>
    /\ catalog = [ok |-> TRUE, cols |-> <<>>]
    /\ use_external_database = FALSE
    /\ is_materialized = TRUE

\* A plain consumer of the mixin.
InitRequest ==
    /\ InitRecord
    /\ name_ = NAME_REQUEST
    /\ query \in Queries
    /\ others = <<>>
    /\ catalog \in RequestCatalogs
    /\ use_external_database \in BOOLEAN
    /\ is_materialized = TRUE

\* A BiSQLView.
Init ==
    /\ InitRecord
    /\ name_ = NAME_VIEW
    /\ query \in ViewQueries
    /\ others = <<>>
    /\ catalog \in ViewCatalogs
    /\ use_external_database \in BOOLEAN
    /\ is_materialized \in BOOLEAN

\* A BiSQLView among other views, each in any state of the lifecycle.
InitUnlink ==
    /\ InitRecord
    /\ name_ = NAME_VIEW
    /\ query \in ViewQueries
    /\ others \in OtherViews
    /\ catalog \in ViewCatalogs
    /\ use_external_database = FALSE
    /\ is_materialized \in BOOLEAN

CleanQuery == Commit(clean_query(Cur), "_clean_query", NoText, FALSE)

CheckProhibitedWords ==
    Commit(check_prohibited_words(Cur), "_check_prohibited_words", NoText, FALSE)

Validate ==
    \E e \in ProbeEnvs :
        Commit(button_validate_sql_expression(Cur, e),
               "button_validate_sql_expression", NoText, FALSE)

SetDraft ==
    Commit(IF IsView(Cur) THEN view_button_set_draft(Cur) ELSE mixin_button_set_draft(Cur),
           "button_set_draft", NoText, FALSE)

\* write({"query": q}); the database answers the new query in its own way.
WriteQueryFrom(queries, catalogs) ==
    \E q \in queries, cat \in catalogs :
        Commit([write_query(Cur, q) EXCEPT !.catalog = cat], "write", NoText, FALSE)

WriteQuery ==
    WriteQueryFrom(IF name_ = NAME_VIEW THEN ViewQueries ELSE Queries, Catalogs)

WriteQuerySync == WriteQueryFrom(ViewQueries, SyncCatalogs)

\* write(vals) on a field of the view.
FieldWrite ==
    \E f \in fields, vals \in FieldVals(Cur) :
        Commit(write_field(Cur, f.id, vals), "field_write", NoText, FALSE)

Execute ==
    \E a \in ExecuteArgs :
        \E done \in {execute_sql_request(Cur, a)} :
            /\ Cardinality(done.db) <= MaxDbObjects
            /\ CommitCall(done, [op |-> "_execute_sql_request", mode |-> a.mode,
                                  rollback |-> a.rollback, view_name |-> a.view_name])

CreateModel ==
    \E e \in ModelEnvs :
        /\ Cardinality(orm["model_id"]) < MaxRecords
        /\ Commit(button_create_sql_view_and_model(Cur, e),
                  "button_create_sql_view_and_model", NoText, FALSE)

CreateUi ==
    /\ Cardinality(orm["menu_id"]) < MaxRecords
    /\ Commit(button_create_ui(Cur), "button_create_ui", NoText, FALSE)

ResetToModelValid ==
    Commit(button_reset_to_model_valid(Cur), "button_reset_to_model_valid", NoText, FALSE)

ResetToSqlValid ==
    Commit(button_reset_to_sql_valid(Cur), "button_reset_to_sql_valid", NoText, FALSE)

Preview ==
    \E e \in ProbeEnvs, r \in QueryResults :
        Commit(button_preview_sql_expression(Cur, e, r),
               "button_preview_sql_expression", NoText, FALSE)

\* write({"is_materialized": v})
WriteMaterialized ==
    \E v \in BOOLEAN :
        CommitCall(write_is_materialized(Cur, v),
                   [op |-> "write", mode |-> NoText, rollback |-> FALSE,
                    is_materialized |-> v])

\* The allowed groups are changed, in the form or by a write().
ChangeGroups ==
    \E gs \in GroupSets \ {group_ids}, form \in BOOLEAN :
        CommitCall(change_group_ids(Cur, gs, form),
                   [op |-> "write", mode |-> NoText, rollback |-> FALSE,
                    group_ids |-> gs, form |-> form])

UpdateModelAccess ==
    Commit(button_update_model_access(Cur), "button_update_model_access", NoText, FALSE)

\* write({"sequence": v})
WriteSequence ==
    \E v \in Sequences :
        CommitCall(write_sequence(Cur, v),
                   [op |-> "write", mode |-> NoText, rollback |-> FALSE, sequence |-> v])

\* The statements of the events, as the session s sent them.
SentBy(s, tr) == [i \in DOMAIN tr |-> [session |-> s, ev |-> tr[i].ev, result |-> tr[i].result]]

\* A step of _create_view in the session s has run: the session goes to
\* `next`, or stops with the exception the step raised.
SessionStep(s, step, next, c0) ==
    \E c \in {c0} :
        CommitAs(c, [op |-> "_create_view", mode |-> NoText, rollback |-> FALSE,
                     session |-> s, step |-> step],
                 [sessions EXCEPT ![s] = IF Failed(c) THEN [pc |-> "failed", exc |-> c.exc]
                                         ELSE [pc |-> next, exc |-> "none"]],
                 dblog \o SentBy(s, c.trace))

\* sql_view._drop_view()
SessionDrop ==
    \E s \in Sessions :
        /\ state = "sql_valid"
        /\ sessions[s].pc = "drop"
        /\ SessionStep(s, "drop", "create", drop_view(Cur))

\* self._log_execute(sql_view._prepare_request_for_execution()), in the try
SessionCreate ==
    \E s \in Sessions, e \in ConcurrentEnvs :
        /\ sessions[s].pc = "create"
        /\ SessionStep(s, "create", "size", WrapCreateError(execute_create_view(Cur, e)))

\* sql_view._refresh_size(), in the try
SessionSize ==
    \E s \in Sessions, e \in ConcurrentEnvs :
        /\ sessions[s].pc = "size"
        /\ SessionStep(s, "size", "done", WrapCreateError(refresh_size(Cur, e)))

\* button_refresh_materialized_view
Refresh ==
    \E e \in ModelEnvs :
        CommitCall(refresh_materialized_view(Cur, e),
                   [op |-> "button_refresh_materialized_view", mode |-> NoText,
                    rollback |-> FALSE, listed |-> TRUE, env |-> e])

\* The refresh task runs _refresh_materialized_view_cron(view_ids).
RefreshCron ==
    \E e \in ModelEnvs, listed \in BOOLEAN :
        CommitCall(refresh_materialized_view_cron(Cur, listed, e),
                   [op |-> "_refresh_materialized_view_cron", mode |-> NoText,
                    rollback |-> FALSE, listed |-> listed, env |-> e])

\* Time passes on the server.
Tick ==
    /\ now < MaxTicks
    /\ now' = now + 1
    /\ call' = [op |-> "tick", mode |-> NoText, rollback |-> FALSE]
    /\ outcome' = "ok"
    /\ message' = NoText
    /\ trace' = <<>>
    /\ UNCHANGED <<name_, state, query, use_external_database, has_group_changed,
                   group_ids, technical_name, is_materialized, size, sequence,
                   menu_sequence, action_name, fields, refs, orm, access,
                   cron_active, catalog, db, alive, others, sessions, dblog>>

\* unlink() of a set of views: the view the model follows, if `self_in`, and
\* the other views `ids`.  The ondelete check runs first, on the whole set.
Unlink ==
    \E self_in \in BOOLEAN, ids \in SUBSET (DOMAIN others) :
        /\ alive
        /\ self_in \/ ids # {}
        /\ call' = [op |-> "unlink", mode |-> NoText, rollback |-> FALSE,
                    self_in |-> self_in, ids |-> ids]
        /\ trace' = <<>>
        /\ IF check_unlink_constraints(UnlinkStates(self_in, ids))
           THEN /\ outcome' = "UserError"
                /\ message' = <<"You can only unlink draft views. ">>
                /\ UNCHANGED <<alive, others>>
           ELSE /\ outcome' = "ok"
                /\ message' = NoText
                /\ alive' = ~self_in
                /\ others' = [i \in (DOMAIN others) \ ids |-> others[i]]
        /\ UNCHANGED <<name_, state, query, use_external_database, has_group_changed,
                       group_ids, technical_name, is_materialized, size, sequence,
                       menu_sequence, action_name, now, fields, refs,
                       orm, access, cron_active, catalog, db, sessions, dblog>>

NextSanitizer == CleanQuery \/ CheckProhibitedWords

NextRequest == Validate \/ SetDraft \/ WriteQuery \/ Execute

Next ==
    \/ Validate
    \/ SetDraft
    \/ WriteQuery
    \/ FieldWrite
    \/ CreateModel
    \/ CreateUi
    \/ ResetToModelValid
    \/ ResetToSqlValid
    \/ Preview

SpecSanitizer == InitSanitizer /\ [][NextSanitizer]_vars

SpecRequest == InitRequest /\ [][NextRequest]_vars

\* A BiSQLView whose query has up to MaxSyncCols columns.
InitSync ==
    /\ InitRecord
    /\ name_ = NAME_VIEW
    /\ query \in ViewQueries
    /\ others = <<>>
    /\ catalog \in SyncCatalogs
    /\ use_external_database = FALSE
    /\ is_materialized \in BOOLEAN

NextSync == Validate \/ SetDraft \/ WriteQuerySync \/ FieldWrite

SpecSync == InitSync /\ [][NextSync]_vars

\* A local BiSQLView, its refreshes and the clock.
InitRefresh == Init /\ ~use_external_database

NextRefresh == Validate \/ CreateModel \/ CreateUi \/ Refresh \/ RefreshCron \/ Tick

SpecRefresh == InitRefresh /\ [][NextRefresh]_vars

\* A local BiSQLView, the index flags of its fields and its kind.
InitIndex == Init /\ ~use_external_database

NextIndex == Validate \/ FieldWrite \/ WriteMaterialized \/ CreateModel \/ ResetToSqlValid

SpecIndex == InitIndex /\ [][NextIndex]_vars

\* A local BiSQLView that MaxSessions sessions materialize, each statement
\* of a session applied to the database before the next one is sent.
InitConcurrent == Init /\ ~use_external_database

NextConcurrent == Validate \/ SessionDrop \/ SessionCreate \/ SessionSize

SpecConcurrent == InitConcurrent /\ [][NextConcurrent]_vars

\* A local BiSQLView of up to MaxSyncCols columns, made and unmade.
InitCreate == InitSync

NextCreate == Validate \/ FieldWrite \/ CreateModel \/ ResetToSqlValid

SpecCreate == InitCreate /\ [][NextCreate]_vars

\* A local BiSQLView, its menu and its sequence.
InitMenu == Init /\ ~use_external_database

NextMenu == Validate \/ CreateModel \/ CreateUi \/ ResetToModelValid \/ WriteSequence

SpecMenu == InitMenu /\ [][NextMenu]_vars

\* A local BiSQLView and its allowed groups.
InitGroups == Init /\ ~use_external_database

NextGroups ==
    \/ Validate
    \/ CreateModel
    \/ ResetToSqlValid
    \/ SetDraft
    \/ ChangeGroups
    \/ UpdateModelAccess

SpecGroups == InitGroups /\ [][NextGroups]_vars

NextUnlink == Validate \/ CreateModel \/ ResetToSqlValid \/ Unlink

SpecUnlink == InitUnlink /\ [][NextUnlink]_vars

Spec == Init /\ [][Next]_vars

-----------------------------------------------------------------------------
(* What the claims speak of.                                               *)

\* The fields of the record, and the database and the ORM next to it.
record == <<name_, state, query, use_external_database, has_group_changed, group_ids,
            technical_name, is_materialized, size, sequence, menu_sequence, action_name,
            fields, refs, orm, access, cron_active, catalog>>

OP_EXECUTE == "_execute_sql_request"
OP_VALIDATE == "button_validate_sql_expression"

\* The five modes, spelled exactly.
ExactModes == {MODE_FETCHALL, MODE_FETCHONE, MODE_STDOUT, MODE_VIEW, MODE_MATERIALIZED_VIEW}

\* The statements that hold the query of the request.
StatementEvents == {"QUERY", "COPY", "CREATE VIEW", "CREATE MATERIALIZED VIEW"}

\* The maximal runs of word characters of a text.
Tokens(q) ==
    { SubSeq(q, p[1], p[2]) :
        p \in { p \in (DOMAIN q) \X (DOMAIN q) :
                  /\ p[1] <= p[2]
                  /\ \A i \in p[1]..p[2] : IsWordChar(q[i])
                  /\ (p[1] = 1 \/ ~IsWordChar(q[p[1] - 1]))
                  /\ (p[2] = Len(q) \/ ~IsWordChar(q[p[2] + 1])) } }

\* The blacklisted words a text holds as a token, in any letter case.
ProhibitedWordSet == Range(PROHIBITED_WORDS)

ProhibitedTokens(q) == { lower(t) : t \in Tokens(q) } \cap ProhibitedWordSet

\* The last character of the text is ';'.
EndsWithTerminator(q) == q # <<>> /\ q[Len(q)] = ";"

\* The text ends in ';', white space after it set aside.
EndsInTerminator(q) == rstrip(q) # <<>> /\ rstrip(q)[Len(rstrip(q))] = ";"

\* What _clean_query leaves can be probed: the query is not made of white
\* space and ';' alone, and holds no blacklisted token.
Probed(q) ==
    /\ \E i \in DOMAIN q : ~IsSpace(q[i]) /\ q[i] # ";"
    /\ ProhibitedTokens(q) = {}

\* Every statement of the trace that holds the query runs between a
\* SAVEPOINT and a ROLLBACK TO SAVEPOINT of the same name, on its cursor.
RolledBack(tr) ==
    \A j \in DOMAIN tr :
        tr[j].ev \in StatementEvents =>
            \E i \in 1..(j - 1), k \in (j + 1)..Len(tr) :
                /\ tr[i].ev = "SAVEPOINT" /\ tr[i].cr = tr[j].cr
                /\ tr[k].ev = "ROLLBACK TO SAVEPOINT" /\ tr[k].cr = tr[j].cr
                /\ tr[k].name = tr[i].name

SentStatement(tr) == \E j \in DOMAIN tr : tr[j].ev \in StatementEvents

\* The statement that holds the query was sent, and the database took it.
StatementSucceeded(tr) ==
    \E j \in DOMAIN tr : tr[j].ev \in StatementEvents /\ tr[j].result = "ok"

Touched(tr, evs) == \E j \in DOMAIN tr : tr[j].ev \in evs

-----------------------------------------------------------------------------
(* The claims.                                                             *)

\* C1: _execute_sql_request on a draft request, in any mode, with any rollback
\* value, on the local or the external database, raises the user error of the
\* state guard and does nothing else: nothing is sent on any connection, no
\* connection is opened, and the record and the database stay as they were.
C1_DraftExecutionRejected ==
    [][ (call'.op = OP_EXECUTE /\ state = "draft") =>
            /\ outcome' = "UserError"
            /\ message' = <<"It is not allowed to execute a not checked request.">>
            /\ trace' = <<>>
            /\ UNCHANGED record
            /\ db' = db ]_vars

C1_Witness ==
    /\ call.op = OP_EXECUTE
    /\ state = "draft"
    /\ use_external_database
    /\ call.mode = MODE_VIEW
    /\ outcome = "UserError"
    /\ trace = <<>>

\* C2: button_validate_sql_expression on a query that holds a blacklisted
\* word as a token fails in the prohibited-word check, before the probe:
\* nothing is sent to the database, no savepoint is made, and the state is
\* not written.
C2_ProhibitedWordStopsValidation ==
    [][ (call'.op = OP_VALIDATE /\ ProhibitedTokens(query) # {}) =>
            /\ outcome' = "UserError"
            /\ message' \in { UnsafeMessage(w) : w \in ProhibitedTokens(query) }
            /\ trace' = <<>>
            /\ state' = state
            /\ db' = db ]_vars

C2_Witness ==
    /\ call.op = OP_VALIDATE
    /\ ProhibitedTokens(query) # {}
    /\ catalog.ok
    /\ state = "draft"
    /\ outcome = "UserError"
    /\ trace = <<>>

\* C3: _check_prohibited_words raises its user error exactly when a
\* blacklisted word is a token of the query, in any letter case; the error
\* names a blacklisted word the query holds; otherwise the method returns.
C3_RejectsExactlyWholeWords ==
    call.op = "_check_prohibited_words" =>
        /\ (outcome = "UserError") <=> (ProhibitedTokens(query) # {})
        /\ outcome = "UserError" =>
                message \in { UnsafeMessage(w) : w \in ProhibitedTokens(query) }
        /\ outcome \in {"ok", "UserError"}

C3_Witness ==
    /\ call.op = "_check_prohibited_words"
    /\ outcome = "UserError"
    /\ query # lower(query)
    /\ message = UnsafeMessage(<<"u", "p", "d", "a", "t", "e">>)

C3_WitnessAccepted ==
    /\ call.op = "_check_prohibited_words"
    /\ outcome = "ok"
    /\ IsSubstring(<<"u", "p", "d", "a", "t", "e">>, lower(query))

\* C4: _clean_query on a query that ends in ';' and white space returns, and
\* the query it stores does not end in ';'.
C4_CleanQueryCompletes ==
    [][ (call'.op = "_clean_query" /\ EndsInTerminator(query)) =>
            /\ outcome' = "ok"
            /\ ~EndsWithTerminator(query') ]_vars

\* C5: a request that is not draft holds a query that does not end in ';'
\* and holds no blacklisted word as a token.
C5_CheckedQueryStaysClean ==
    state # "draft" => (~EndsWithTerminator(query) /\ ProhibitedTokens(query) = {})

\* C6: a call of _execute_sql_request in mode fetchall, fetchone or stdout with
\* rollback enabled, and an execution probe, send the statement between a
\* SAVEPOINT and a ROLLBACK TO SAVEPOINT of the same name on the cursor of
\* the statement, whether the statement succeeds or fails, and leave the
\* database as it was.
C6_RollbackAlwaysFires ==
    [][ (\/ /\ call'.op = OP_EXECUTE
            /\ state # "draft"
            /\ call'.mode \in {MODE_FETCHALL, MODE_FETCHONE, MODE_STDOUT}
            /\ call'.rollback
         \/ /\ call'.op = OP_VALIDATE
            /\ Probed(query)) =>
            /\ SentStatement(trace')
            /\ RolledBack(trace')
            /\ db' = db ]_vars

C6_Witness ==
    /\ call.op = OP_EXECUTE
    /\ call.mode = MODE_STDOUT
    /\ call.rollback
    /\ use_external_database
    /\ outcome = "OperationalError"
    /\ SentStatement(trace)
    /\ RolledBack(trace)

\* C7: a call of _execute_sql_request that runs without rollback, and whose
\* statement the database takes, makes no savepoint, sends no rollback and
\* returns normally.
C7_NoRollbackReturns ==
    (/\ call.op = OP_EXECUTE
     /\ state # "draft"
     /\ call.mode \in ExactModes
     /\ ~EffectiveRollback(call.mode, call.rollback)
     /\ StatementSucceeded(trace)) =>
        /\ outcome = "ok"
        /\ ~Touched(trace, {"SAVEPOINT", "ROLLBACK TO SAVEPOINT"})

\* C8: a mode that is not one of the five, on a request that is not draft,
\* raises the 'Unimplemented mode' user error, and nothing is sent before.
C8_UnknownModeRejected ==
    (call.op = OP_EXECUTE /\ state # "draft" /\ call.mode \notin ExactModes) =>
        /\ outcome = "UserError"
        /\ message = <<"Unimplemented mode : '">> \o call.mode \o <<"'">>
        /\ trace = <<>>

\* C9: every external connection a call of _execute_sql_request or of the
\* probe opens is closed when the call is over, and the cursor of the
\* session is never closed.
C9_ExternalConnectionClosed ==
    call.op \in {OP_EXECUTE, OP_VALIDATE} =>
        /\ \A i \in DOMAIN trace :
                trace[i].ev = "open" =>
                    \E k \in (i + 1)..Len(trace) :
                        trace[k].ev = "close" /\ trace[k].cr = trace[i].cr
        /\ \A i \in DOMAIN trace : trace[i].ev = "close" => trace[i].cr # "local"

\* The levels of the state of a view, from the lowest.
Level(s) == CHOOSE i \in 1..4 : (STATE_SELECTION \o STATE_SQL_EDITOR)[i] = s

\* The values written to the field state, in order.
StateWrites(tr) == SelectSeq(tr, LAMBDA ev : ev.ev = "write" /\ ev.name = <<"state">>)

\* C10: button_set_draft on a view writes the states one level at a time,
\* down to draft, and when it has returned the view has no presentation
\* view, action, menu, model or rule, and its refresh task is not active.
C10_SetDraftRemovesArtifacts ==
    (call.op = "button_set_draft" /\ outcome = "ok") =>
        /\ state = "draft"
        /\ \A i \in 1..(Len(StateWrites(trace)) - 1) :
                Level(StateWrites(trace)[i].body[1]) =
                    Level(StateWrites(trace)[i + 1].body[1]) + 1
        /\ \A k \in Range(UiKinds) \cup {"model_id", "rule_id"} : refs[k] = NoRecord
        /\ refs["cron_id"] \notin cron_active

\* Where the trace holds an unlink of a presentation view, the action or the
\* menu; of the model or the rule; and a DROP of the database view.
UiUnlinks(tr) ==
    { i \in DOMAIN tr : tr[i].ev = "unlink" /\ tr[i].name \in { <<k>> : k \in Range(UiKinds) } }

ModelUnlinks(tr) ==
    { i \in DOMAIN tr : tr[i].ev = "unlink" /\ tr[i].name \in {<<"model_id">>, <<"rule_id">>} }

ViewDrops(tr) ==
    { i \in DOMAIN tr : tr[i].ev \in {"DROP VIEW IF EXISTS", "DROP MATERIALIZED VIEW IF EXISTS"} }

Before(S, T) == \A i \in S, j \in T : i < j

ResetOps == {"button_reset_to_sql_valid", "button_set_draft"}

\* C11, as the code has it: in a reset down to sql_valid the presentation
\* views, the action and the menu are unlinked first, then the database view
\* is dropped (when the view is materialized), and the rule and the model
\* are unlinked after the drop.
C11_ResetOrderViewBeforeModel ==
    call.op \in ResetOps =>
        /\ Before(UiUnlinks(trace), ViewDrops(trace))
        /\ Before(UiUnlinks(trace), ModelUnlinks(trace))
        /\ Before(ViewDrops(trace), ModelUnlinks(trace))

C11_Witness ==
    /\ call.op = "button_reset_to_sql_valid"
    /\ outcome = "ok"
    /\ state = "sql_valid"
    /\ UiUnlinks(trace) # {}
    /\ ViewDrops(trace) # {}
    /\ ModelUnlinks(trace) # {}

\* C11, as the claim has it: the model and the rule are unlinked before the
\* database view is dropped.
C11_ResetOrderModelBeforeView ==
    call.op \in ResetOps =>
        /\ Before(UiUnlinks(trace), ModelUnlinks(trace))
        /\ Before(ModelUnlinks(trace), ViewDrops(trace))

\* The database has a relation of one of the kinds with the name of the view.
HasRelation(objs, kinds) ==
    \E o \in objs : o.kind \in kinds /\ o.name = view_name(Cur)

\* What button_reset_to_sql_valid leaves of a view that was model_valid,
\* the DROP set aside.
ResetLeavesSqlValid ==
    /\ outcome' = "ok"
    /\ state' = "sql_valid"
    /\ refs'["model_id"] = NoRecord /\ refs["model_id"] \notin orm'["model_id"]
    /\ refs'["rule_id"] = NoRecord /\ refs["rule_id"] \notin orm'["rule_id"]
    /\ refs'["cron_id"] = refs["cron_id"]
    /\ refs["cron_id"] # NoRecord =>
            (refs["cron_id"] \in orm'["cron_id"] /\ refs["cron_id"] \notin cron_active')

C13_UnlinkGuard ==
    [][ call'.op = "unlink" =>
            IF \E s \in UnlinkStates(call'.self_in, call'.ids) : s \in Range(STATE_SQL_EDITOR)
            THEN /\ outcome' = "UserError"
                 /\ alive' = alive
                 /\ others' = others
            ELSE /\ outcome' = "ok"
                 /\ alive' = ~call'.self_in
                 /\ DOMAIN others' = (DOMAIN others) \ call'.ids
                 /\ \A i \in DOMAIN others' : others'[i] = others[i] ]_vars

\* The set holds a view that may be deleted and one that may not: none goes.
C13_Witness ==
    /\ call.op = "unlink"
    /\ outcome = "UserError"
    /\ call.self_in
    /\ call.ids # {}
    /\ state = "sql_valid"
    /\ alive
    /\ call.ids \subseteq DOMAIN others

\* The names of a set of fields, and of the columns of a manifest.
FieldNames(fs) == { f.name : f \in fs }
ColumnNames(cols) == { cols[i].name : i \in DOMAIN cols }

\* The events of the trace on the fields of the view.
FieldEvents(tr, ev) ==
    { i \in DOMAIN tr : tr[i].ev = ev /\ tr[i].name = <<"bi.sql.view.field">> }

\* The columns of the view were read from the catalog.
ColumnsRead(tr) ==
    \E i \in DOMAIN tr : tr[i].ev = "SELECT pg_attribute" /\ tr[i].result = "ok"

\* C14: after a validation that succeeds, the names of the fields are those
\* of the fields there were whose name is a column of the manifest, and those
\* of the columns prefixed 'x_' that had no field; a column without the prefix
\* and without a field gets none; a field whose name is no column is deleted;
\* the sequence of every field is the ordinal of its column.
C14_SyncFieldSet ==
    [][ (call'.op = OP_VALIDATE /\ outcome' = "ok") =>
            /\ FieldNames(fields') =
                    (FieldNames(fields) \cap ColumnNames(catalog.cols)) \cup
                    { n \in ColumnNames(catalog.cols) :
                        n \notin FieldNames(fields) /\ Prefix2(n) = X_PREFIX }
            /\ \A n \in ColumnNames(catalog.cols) :
                    (n \notin FieldNames(fields) /\ Prefix2(n) # X_PREFIX)
                        => n \notin FieldNames(fields')
            /\ \A f \in fields :
                    IF f.name \in ColumnNames(catalog.cols)
                    THEN f.id \in FieldIds(fields')
                    ELSE f.id \notin FieldIds(fields')
            /\ \A f \in fields' :
                    \E i \in DOMAIN catalog.cols :
                        catalog.cols[i].name = f.name /\ f.sequence = i ]_vars

\* The field x_a went, x_b came as the second column, and a got no field.
C14_Witness ==
    /\ call.op = OP_VALIDATE
    /\ outcome = "ok"
    /\ Len(catalog.cols) = 2
    /\ catalog.cols[1].name = <<"a">>
    /\ catalog.cols[2].name = <<"x", "_", "b">>
    /\ FieldEvents(trace, "unlink") # {}
    /\ FieldEvents(trace, "create") # {}
    /\ \E f \in fields : fields = {f} /\ f.name = <<"x", "_", "b">> /\ f.sequence = 2

\* C15: the synchronisation keeps a field whose name is a column of the
\* manifest as it is, but for its sequence and its sql_type, which are those
\* of the column.
C15_SyncKeepsField ==
    [][ (call'.op = OP_VALIDATE /\ ColumnsRead(trace')) =>
            \A f \in fields, i \in DOMAIN catalog.cols :
                catalog.cols[i].name = f.name =>
                    /\ FieldEvents(trace', "write") # {}
                    /\ \E g \in fields' :
                            /\ g.id = f.id
                            /\ g.name = f.name
                            /\ g.sequence = i
                            /\ g.sql_type = catalog.cols[i].type
                            /\ g.graph_type = f.graph_type
                            /\ g.is_index = f.is_index
                            /\ g.field_description = f.field_description
                            /\ g.many2one_model_id = f.many2one_model_id ]_vars

\* A field a user has set up has moved to the second column, as text.
C15_Witness ==
    /\ call.op = OP_VALIDATE
    /\ outcome = "ok"
    /\ FieldEvents(trace, "write") # {}
    /\ FieldEvents(trace, "create") # {}
    /\ \E f \in fields :
            /\ f.id = 1
            /\ f.name = <<"x", "_", "a">>
            /\ f.sequence = 2
            /\ f.sql_type = "text"
            /\ f.graph_type = "row"
            /\ f.field_description = <<"A">>
            /\ f.many2one_model_id = 1

\* C16: a validation that succeeds right after a validation that succeeded
\* leaves the fields as they are, and creates and deletes none.
C16_SyncIdempotent ==
    [][ (call.op = OP_VALIDATE /\ outcome = "ok" /\
         call'.op = OP_VALIDATE /\ outcome' = "ok") =>
            /\ fields' = fields
            /\ FieldEvents(trace', "create") = {}
            /\ FieldEvents(trace', "unlink") = {}
            /\ Cardinality(FieldEvents(trace', "write")) = Cardinality(fields) ]_vars

\* A validation met both of its columns as fields.
C16_Witness ==
    /\ call.op = OP_VALIDATE
    /\ outcome = "ok"
    /\ Cardinality(fields) = 2
    /\ Cardinality(FieldEvents(trace, "write")) = 2
    /\ FieldEvents(trace, "create") = {}
    /\ FieldEvents(trace, "unlink") = {}

\* C17: when the view has no field once its columns are synchronized, the
\* validation raises the user error 'No Column was found.' and does not write
\* the state.
C17_NoColumnFound ==
    [][ (call'.op = OP_VALIDATE /\ ColumnsRead(trace') /\ fields' = {}) =>
            /\ outcome' = "UserError"
            /\ message' = <<"No Column was found.">>
            /\ StateWrites(trace') = <<>>
            /\ state' = state ]_vars

\* The last field of a draft view went with the column it had.
C17_Witness ==
    /\ call.op = OP_VALIDATE
    /\ outcome = "UserError"
    /\ message = <<"No Column was found.">>
    /\ FieldEvents(trace, "unlink") # {}
    /\ fields = {}
    /\ state = "draft"

\* The record and the database as a call has left them, for the next call.
Again(c) ==
    [c EXCEPT !.ext = {}, !.sp = {}, !.ret = <<>>, !.exc = "none",
              !.msg = NoText, !.trace = <<>>]

\* button_set_draft, then button_validate_sql_expression, from this state.
RoundTrip(e) ==
    Let(view_button_set_draft(Cur), LAMBDA drafted :
        [drafted |-> drafted,
         validated |-> button_validate_sql_expression(Again(drafted), e)])

\* C18: from a view whose validation has just succeeded, button_set_draft
\* and then a validation of the same query, which the database answers as
\* before, both succeed; the validation reads the same columns and leaves the
\* same fields, and the view is sql_valid again.
C18_RoundTripKeepsFields ==
    (call.op = OP_VALIDATE /\ outcome = "ok") =>
        \A e \in ProbeEnvs :
            e.result = "ok" =>
                \E r \in {RoundTrip(e)} :
                    /\ ~Failed(r.drafted)
                    /\ r.drafted.state = "draft"
                    /\ r.drafted.fields = fields
                    /\ ~Failed(r.validated)
                    /\ r.validated.state = "sql_valid"
                    /\ r.validated.query = query
                    /\ r.validated.ret = Attributes(catalog.cols)
                    /\ r.validated.fields = fields

\* A view with the fields of two columns, one set up by a user, is sql_valid.
C18_Witness ==
    /\ call.op = OP_VALIDATE
    /\ outcome = "ok"
    /\ state = "sql_valid"
    /\ Cardinality(fields) = 2
    /\ \E f \in fields : f.graph_type = "row"
    /\ \A e \in ProbeEnvs :
            e.result = "ok" => RoundTrip(e).validated.fields = fields

\* The text holds the name.
Names(text, name) ==
    \E i \in DOMAIN text :
        i + Len(name) - 1 <= Len(text) /\ SubSeq(text, i, i + Len(name) - 1) = name

\* The many2one fields of the view that have no model.
RelationsWithoutModel == { f \in fields : f.ttype = "many2one" /\ f.many2one_model_id = NoRecord }

\* C19: button_create_sql_view_and_model leaves a view that is not sql_valid
\* as it is; on a sql_valid view that has a many2one field without model it
\* raises a validation error that names every such field, and creates
\* nothing: no model, rule, grant, database view, index or refresh task, and
\* the state stays sql_valid.
C19_CreateModelGuards ==
    [][ call'.op = "button_create_sql_view_and_model" =>
            /\ state # "sql_valid" =>
                    /\ outcome' = "ok"
                    /\ trace' = <<>>
                    /\ UNCHANGED <<record, db>>
            /\ (state = "sql_valid" /\ RelationsWithoutModel # {}) =>
                    /\ outcome' = "ValidationError"
                    /\ \A f \in RelationsWithoutModel : Names(message', f.name)
                    /\ trace' = <<>>
                    /\ UNCHANGED <<record, db>> ]_vars

\* The creation was refused for the field x_a of a sql_valid view.
C19_Witness ==
    /\ call.op = "button_create_sql_view_and_model"
    /\ outcome = "ValidationError"
    /\ Names(message, <<"x", "_", "a">>)
    /\ state = "sql_valid"
    /\ RelationsWithoutModel # {}
    /\ refs["model_id"] = NoRecord
    /\ db = {}

\* The records of the presentation the view owns.
UiRecords == [k \in Range(UiKinds) |-> refs[k]]

\* C20: button_create_ui on a model_valid view creates the four presentation
\* views, the action and the menu and writes ui_valid; on a view in any other
\* state it creates no record and leaves the state and the view as they are.
C20_CreateUiOnlyFromModelValid ==
    [][ call'.op = "button_create_ui" =>
            IF state = "model_valid"
            THEN outcome' = "ok" =>
                    /\ state' = "ui_valid"
                    /\ \A k \in Range(UiKinds) :
                            refs'[k] \in orm'[k] /\ refs'[k] \notin orm[k]
            ELSE /\ state' = state
                 /\ orm' = orm
                 /\ UiRecords' = UiRecords
                 /\ FieldEvents(trace', "create") = {}
                 /\ \A i \in DOMAIN trace' : trace'[i].ev # "create" ]_vars

\* C21: every record created for the view that still exists is the one the
\* view references: of each kind (model, rule, refresh task, the four
\* presentation views, action, menu) at most one exists, and it is not
\* orphaned.
C21_NoOrphanArtifacts ==
    \A k \in Kinds : orm[k] \subseteq {refs[k]}

RefreshOps == {"button_refresh_materialized_view", "_refresh_materialized_view_cron"}

\* The refresh reaches the view: the button always, the refresh task when
\* its search finds the view.
Refreshed ==
    \/ call'.op = "button_refresh_materialized_view"
    \/ /\ call'.op = "_refresh_materialized_view_cron"
       /\ call'.listed
       /\ state \in {"model_valid", "ui_valid"}

\* The events of the trace that send stmt.
Sent(tr, stmt) == { i \in DOMAIN tr : tr[i].ev = stmt }

\* C22: a refresh of a materialized view first sends REFRESH MATERIALIZED
\* VIEW on view_name; when it succeeds it has then measured the size and
\* stored it, and it has rewritten the name of the action, with the time of
\* the refresh, exactly when the view has an action.  A refresh of a view
\* that is not materialized sends nothing and leaves size and action name.
C22_RefreshMaterializedOnly ==
    [][ (call'.op \in RefreshOps /\ Refreshed) =>
            IF is_materialized
            THEN /\ trace' # <<>>
                 /\ trace'[1].ev = "REFRESH MATERIALIZED VIEW"
                 /\ trace'[1].name = view_name(Cur)
                 /\ outcome' = "ok" =>
                        /\ Sent(trace', "SELECT pg_size_pretty") = {2}
                        /\ size' = call'.env.size
                        /\ (refs["action_id"] # NoRecord) <=>
                                (\E i \in 3..Len(trace') :
                                    /\ trace'[i].ev = "write"
                                    /\ trace'[i].name = <<"action_id.name">>)
                        /\ action_name' =
                                IF refs["action_id"] # NoRecord
                                THEN <<RECORD_NAME, now>> ELSE action_name
            ELSE /\ outcome' = "ok"
                 /\ trace' = <<>>
                 /\ size' = size
                 /\ action_name' = action_name ]_vars

\* A refresh after the clock has moved has put the new time in the name of
\* the action and stored the size it measured.
C22_Witness ==
    /\ call.op = "button_refresh_materialized_view"
    /\ outcome = "ok"
    /\ is_materialized
    /\ refs["action_id"] # NoRecord
    /\ now = 1
    /\ action_name = <<RECORD_NAME, 1>>
    /\ size = "16 kB"
    /\ Sent(trace, "REFRESH MATERIALIZED VIEW") = {1}

Creates == { i \in DOMAIN dblog : dblog[i].ev \in {"CREATE VIEW", "CREATE MATERIALIZED VIEW"} }

\* C24: when every session has left _create_view, none has raised, the view
\* exists, and it is the one of the last CREATE sent: that CREATE succeeded.
C24_ConcurrentCreateLastWins ==
    (\A s \in Sessions : sessions[s].pc \in {"done", "failed"}) =>
        /\ \A s \in Sessions : sessions[s].pc = "done"
        /\ \E o \in db : o.kind = ViewKind(Cur) /\ o.name = view_name(Cur)
        /\ \A i \in Creates :
                (\A j \in Creates : j <= i) => dblog[i].result = "ok"

\* The view owns a record of the ORM, or a relation of the database, or an
\* active refresh task.
OwnsArtifacts ==
    \/ \E k \in Range(UiKinds) \cup {"model_id", "rule_id"} : refs[k] # NoRecord
    \/ \E o \in db : o.kind \in Relations /\ o.name = view_name(Cur)
    \/ refs["cron_id"] \in cron_active

\* C25: a view whose state is draft or sql_valid owns no model, rule,
\* presentation view, action or menu, has no relation named view_name in
\* the database and no active refresh task.
C25_LowStatesOwnNothing ==
    state \in {"draft", "sql_valid"} => ~OwnsArtifacts

\* The relations named as the view that a set of database objects holds.
NamedAsView(objs) == { o \in objs : o.kind \in Relations /\ o.name = view_name(Cur) }

\* The places of the trace where the probe created its transient view.
ProbeCreates(tr) == { j \in DOMAIN tr : tr[j].ev = "CREATE VIEW" /\ tr[j].result = "ok" }

\* C26: in the execution probe of a view the statements go in the order
\* SAVEPOINT, CREATE VIEW of the transient view, catalog query for its
\* columns, ROLLBACK TO SAVEPOINT; the catalog query runs on the connection
\* that created the transient view, local or external, and sees it; after the
\* probe the database holds no view named view_name that it did not hold
\* before.
C26_ProbeOrderSameConnection ==
    [][ (call'.op = OP_VALIDATE /\ name_ = NAME_VIEW) =>
            /\ \A j \in ProbeCreates(trace') :
                  /\ trace'[j].name = view_name(Cur)
                  /\ \E i \in 1..(j - 1) :
                        trace'[i].ev = "SAVEPOINT" /\ trace'[i].cr = trace'[j].cr
                  /\ j + 1 \in DOMAIN trace'
                  /\ trace'[j + 1].ev = "SELECT pg_attribute"
                  /\ trace'[j + 1].name = view_name(Cur)
                  /\ trace'[j + 1].cr = trace'[j].cr
                  /\ trace'[j + 1].result = "ok"
                  /\ \E k \in (j + 2)..Len(trace') :
                        /\ trace'[k].ev = "ROLLBACK TO SAVEPOINT"
                        /\ trace'[k].cr = trace'[j].cr
            /\ NamedAsView(db') \subseteq NamedAsView(db) ]_vars

\* The places of the trace where the database refused the probe statement.
ProbeRefusals(tr) == { j \in DOMAIN tr : tr[j].ev = "CREATE VIEW" /\ tr[j].result # "ok" }

\* The calls of the ORM on the fields of the view.
FieldCalls(tr) == { j \in DOMAIN tr : tr[j].name = <<"bi.sql.view.field">> }

\* What a validation whose probe statement the database refused leaves: the
\* savepoint rolled back on the cursor of the statement, the state, the
\* fields and the database as they were.
ProbeAborted ==
    /\ \A j \in ProbeRefusals(trace') :
          \E i \in 1..(j - 1), k \in (j + 1)..Len(trace') :
              /\ trace'[i].ev = "SAVEPOINT" /\ trace'[i].cr = trace'[j].cr
              /\ trace'[k].ev = "ROLLBACK TO SAVEPOINT" /\ trace'[k].cr = trace'[j].cr
              /\ trace'[k].name = trace'[i].name /\ trace'[k].result = "ok"
    /\ state' = state
    /\ fields' = fields
    /\ FieldCalls(trace') = {}
    /\ db' = db

ProbeRefused == call'.op = OP_VALIDATE /\ name_ = NAME_VIEW /\ ProbeRefusals(trace') # {}

\* C27: when the database refuses the probe statement of a validation with a
\* ProgrammingError, the validation raises the user-facing error; any other
\* exception of the database leaves the call as it is.  In both cases the
\* savepoint is rolled back, the state of the view is the one before the
\* call, and no field of the view is created, updated or deleted.
C27_ProbeFailureAborts ==
    [][ ProbeRefused =>
            /\ \A j \in ProbeRefusals(trace') :
                  IF trace'[j].result = "ProgrammingError"
                  THEN outcome' = "UserError" /\ message' = <<"The SQL query is not valid:">>
                  ELSE outcome' = trace'[j].result
            /\ ProbeAborted ]_vars

\* A validation the database refused with a ProgrammingError, on a checked
\* view that has fields.
C27_Witness ==
    /\ call.op = OP_VALIDATE
    /\ name_ = NAME_VIEW
    /\ \E j \in ProbeRefusals(trace) : trace[j].result = "ProgrammingError"
    /\ outcome = "UserError"
    /\ state = "sql_valid"
    /\ fields # {}

\* C27 as stated: whenever the database refuses the probe statement of a
\* validation, the validation raises the user-facing error, the savepoint is
\* rolled back, the state of the view is the one before the call, and no
\* field of the view is created, updated or deleted.
C27_ProbeFailureAlwaysUserError ==
    [][ ProbeRefused =>
            /\ outcome' = "UserError"
            /\ message' = <<"The SQL query is not valid:">>
            /\ ProbeAborted ]_vars

OP_CREATE_MODEL == "button_create_sql_view_and_model"

\* The part of button_create_sql_view_and_model an event belongs to: 1 the
\* schema object and its rule, 2 the access grants, 3 the drop of the
\* database view, 4 its creation, 5 the indexes, 6 the refresh task, 7 the
\* state.
Phase(ev) ==
    CASE ev.ev = "create" /\ ev.name \in {<<"model_id">>, <<"rule_id">>} -> 1
      [] ev.ev = "DROP TABLE" -> 1
      [] ev.ev = "create" /\ ev.name = <<"ir.model.access">> -> 2
      [] ev.ev \in {"DROP VIEW IF EXISTS", "DROP MATERIALIZED VIEW IF EXISTS"} -> 3
      [] ev.ev \in {"CREATE VIEW", "CREATE MATERIALIZED VIEW", "SELECT pg_size_pretty"} -> 4
      [] ev.ev = "CREATE INDEX" -> 5
      [] ev.name \in {<<"cron_id">>, <<"cron_id.active">>} -> 6
      [] ev.name = <<"state">> -> 7
      [] OTHER -> 0

InPhase(tr, n) == { i \in DOMAIN tr : Phase(tr[i]) = n }

\* The events of a part that are `ev` on `name`.
Done(tr, ev, name) == { i \in DOMAIN tr : tr[i].ev = ev /\ tr[i].name = name }

IndexedNames == { f.name : f \in { g \in fields : g.is_index } }

\* C28: on a sql_valid view button_create_sql_view_and_model creates the
\* schema object and its access rule, then the access grants, then drops the
\* database view if it exists, then creates it, materialized or plain as
\* is_materialized says, then one index per field flagged is_index, then
\* creates the refresh task or switches it on again if the view is
\* materialized; the state is model_valid only after all of it succeeded, and
\* stays sql_valid when a step fails.
C28_CreateModelOrder ==
    [][ (call'.op = OP_CREATE_MODEL /\ state = "sql_valid") =>
            LET tr == trace'
                mat == IF is_materialized THEN "CREATE MATERIALIZED VIEW" ELSE "CREATE VIEW"
                drop == IF is_materialized THEN "DROP MATERIALIZED VIEW IF EXISTS"
                        ELSE "DROP VIEW IF EXISTS"
            IN  /\ \A i \in DOMAIN tr : Phase(tr[i]) >= 1
                /\ \A i, j \in DOMAIN tr : i < j => Phase(tr[i]) <= Phase(tr[j])
                /\ \A i \in InPhase(tr, 3) : tr[i].ev = drop /\ tr[i].name = view_name(Cur)
                /\ \A i \in Done(tr, "CREATE VIEW", view_name(Cur))
                        \cup Done(tr, "CREATE MATERIALIZED VIEW", view_name(Cur)) :
                        tr[i].ev = mat
                /\ IF outcome' = "ok"
                   THEN /\ state' = "model_valid"
                        /\ Cardinality(Done(tr, "create", <<"model_id">>)) = 1
                        /\ Cardinality(Done(tr, "create", <<"rule_id">>)) = 1
                        /\ \A i \in Done(tr, "create", <<"model_id">>),
                              j \in Done(tr, "create", <<"rule_id">>) : i < j
                        /\ Cardinality(Done(tr, "create", <<"ir.model.access">>)) = 1
                        /\ Cardinality(InPhase(tr, 3)) = 1
                        /\ Cardinality(Done(tr, mat, view_name(Cur))) = 1
                        /\ \E o \in db' : o.kind = ViewKind(Cur) /\ o.name = view_name(Cur)
                        /\ Cardinality(InPhase(tr, 5)) = Cardinality(IndexedNames)
                        /\ { tr[i].body : i \in InPhase(tr, 5) } = IndexedNames
                        /\ \A i \in InPhase(tr, 5) :
                              tr[i].name = view_name(Cur) /\ tr[i].result = "ok"
                        /\ Cardinality(InPhase(tr, 6)) = IF is_materialized THEN 1 ELSE 0
                        /\ \A i \in InPhase(tr, 6) :
                              IF refs["cron_id"] = NoRecord
                              THEN tr[i].ev = "create" /\ tr[i].name = <<"cron_id">>
                              ELSE /\ tr[i].ev = "write" /\ tr[i].body = <<"True">>
                                   /\ tr[i].name = <<"cron_id.active">>
                        /\ is_materialized => refs'["cron_id"] \in cron_active'
                        /\ InPhase(tr, 7) = {Len(tr)}
                        /\ tr[Len(tr)].body = <<"model_valid">>
                   ELSE /\ state' = "sql_valid"
                        /\ InPhase(tr, 7) = {} ]_vars

\* A materialized view with two indexed fields was made a second time: the
\* refresh task it had was switched on again.
C28_Witness ==
    /\ call.op = OP_CREATE_MODEL
    /\ outcome = "ok"
    /\ state = "model_valid"
    /\ is_materialized
    /\ Cardinality(Done(trace, "CREATE INDEX", view_name(Cur))) = 2
    /\ Done(trace, "write", <<"cron_id.active">>) # {}

\* The calls that take a view below model_valid.
LoweringOps == {"button_reset_to_sql_valid", "button_set_draft"}

\* C29: over the cycles of create-model and reset of a view at most one
\* refresh task is ever created for it: a task is created only by a
\* create-model of a materialized view that has none, a later create-model
\* switches the task of the view on again, a reset switches it off and does
\* not delete it, and the task is active only while the view is model_valid
\* or ui_valid.
C29_OneRefreshTask ==
    [][ /\ orm["cron_id"] \subseteq orm'["cron_id"]
        /\ Cardinality(orm'["cron_id"]) <= 1
        /\ orm'["cron_id"] # orm["cron_id"] =>
              /\ call'.op = OP_CREATE_MODEL
              /\ is_materialized
              /\ orm["cron_id"] = {}
              /\ refs'["cron_id"] \in orm'["cron_id"]
        /\ (call'.op = OP_CREATE_MODEL /\ state = "sql_valid" /\ outcome' = "ok"
                /\ is_materialized) =>
              /\ orm["cron_id"] # {} => refs'["cron_id"] = refs["cron_id"]
              /\ orm'["cron_id"] = {refs'["cron_id"]}
              /\ refs'["cron_id"] \in cron_active'
        /\ (call'.op \in LoweringOps /\ state \in {"model_valid", "ui_valid"}
                /\ outcome' = "ok") =>
              /\ refs'["cron_id"] = refs["cron_id"]
              /\ cron_active' = {}
        /\ cron_active' \subseteq orm'["cron_id"]
        /\ cron_active' # {} => state' \in {"model_valid", "ui_valid"} ]_vars

\* A materialized view was made, reset and made again: its one refresh task
\* is active again.
C29_Witness ==
    /\ call.op = OP_CREATE_MODEL
    /\ outcome = "ok"
    /\ is_materialized
    /\ Done(trace, "write", <<"cron_id.active">>) # {}
    /\ orm["cron_id"] = {refs["cron_id"]}
    /\ refs["cron_id"] \in cron_active
    /\ Cardinality(orm["model_id"]) = 1

\* C30: every write that sets the sequence of a view that has a menu, to any
\* integer, 0 included, leaves the sequence of the menu equal to the new
\* sequence of the view; hence in every state a view with a menu has
\* menu.sequence equal to its own sequence.
C30_MenuFollowsSequence ==
    [][ /\ (call'.op = "write" /\ "sequence" \in DOMAIN call'
                /\ refs["menu_id"] # NoRecord) =>
              sequence' = call'.sequence /\ menu_sequence' = call'.sequence
        /\ refs'["menu_id"] # NoRecord => menu_sequence' = sequence' ]_vars

\* The statements that create a view.
CreateEvents == {"CREATE VIEW", "CREATE MATERIALIZED VIEW"}

\* C32: in mode view, and in mode materialized_view, the statement that
\* _execute_sql_request sends is CREATE VIEW, and CREATE MATERIALIZED VIEW,
\* with the view_name of the caller as the name and the query of the request
\* as the body: the view it creates is named view_name.
C32_CreateViewNamesTheView ==
    [][ (call'.op = OP_EXECUTE /\ call'.mode \in {MODE_VIEW, MODE_MATERIALIZED_VIEW}) =>
            \A j \in DOMAIN trace' :
                trace'[j].ev \in CreateEvents =>
                    /\ trace'[j].ev = IF call'.mode = MODE_VIEW THEN "CREATE VIEW"
                                      ELSE "CREATE MATERIALIZED VIEW"
                    /\ trace'[j].name = call'.view_name
                    /\ trace'[j].body = query ]_vars

OP_SET_DRAFT == "button_set_draft"
OP_UPDATE_ACCESS == "button_update_model_access"

\* The call changed the allowed groups in the form of the record.
GroupsChangedInForm ==
    /\ call'.op = "write"
    /\ "form" \in DOMAIN call'
    /\ call'.form
    /\ group_ids' # group_ids

\* C31: has_group_changed becomes true only by a change of the allowed groups
\* made while the state is neither draft nor sql_valid; button_set_draft and
\* button_update_model_access clear it; it is false in every state in which
\* the request is in draft.
C31_GroupFlag ==
    [][ /\ (has_group_changed' /\ ~has_group_changed) =>
              GroupsChangedInForm /\ state \notin {"draft", "sql_valid"}
        /\ (call'.op \in {OP_SET_DRAFT, OP_UPDATE_ACCESS} /\ outcome' = "ok") =>
              ~has_group_changed'
        /\ state' = "draft" => ~has_group_changed' ]_vars

\* The groups of a model_valid view were changed in its form: the flag is up.
C31_Witness ==
    /\ call.op = "write"
    /\ "form" \in DOMAIN call
    /\ call.form
    /\ state = "model_valid"
    /\ has_group_changed

====
